---- MODULE Spec2Model ----
(***************************************************************************)
(* prompt_bookmarks: the catalogue store (database.py, models.py) and the  *)
(* stdio dispatcher (mcp_server.py) as a state machine.                    *)
(*                                                                         *)
(* Text (paths, titles, contents, colours) is a sequence of one-character  *)
(* strings, so that split, startswith, replace and LIKE are computed as    *)
(* the code computes them.  Tag names and categories, which the code only  *)
(* compares for equality, are TLA+ strings.                                *)
(***************************************************************************)
EXTENDS Integers, Sequences, FiniteSets, TLC

VARIABLES
    folders,      \* table folders: rows [id, name, path, parent_id]
    prompts,      \* table prompts: rows [id, title, content, description, folder_id]
    tags,         \* table tags: rows [id, name, category, color]
    prompt_tags,  \* association table: pairs <<prompt_id, tag_id>>
    running,      \* TRUE while MCPStdioServer.run is in its read loop
    req,          \* the last request or store call, with its arguments
    resp,         \* what it returned or wrote
    parsed        \* the local "request" of run: what json.loads returned last

vars == <<folders, prompts, tags, prompt_tags, running, req, resp, parsed>>

----------------------------------------------------------------------------
(* Values *)

\* a NULL column / Python None in an integer column (row ids start at 1)
NoId == 0
\* Python None where text is expected; no text has a character "None"
NoText == <<"None">>
\* str.startswith
StartsWith(s, p) == Len(p) <= Len(s) /\ SubSeq(s, 1, Len(p)) = p
\* str.count of one character
CountChar(s, ch) == Cardinality({i \in 1..Len(s) : s[i] = ch})
\* Python truthiness of an Optional[str]
Truthy(s) == s # NoText /\ s # <<>>

SetMax(S) == CHOOSE m \in S : \A x \in S : x <= m
\* SQLite rowid of a new row in a table with INTEGER PRIMARY KEY: max + 1
NextId(rows) == IF rows = {} THEN 1 ELSE SetMax({r.id : r \in rows}) + 1

\* length of the run of characters other than "/" that s starts with
RECURSIVE RunLen(_)
RunLen(s) == IF s = <<>> \/ Head(s) = "/" THEN 0 ELSE 1 + RunLen(Tail(s))
\* [p for p in path.split('/') if p]
RECURSIVE Parts(_)
Parts(s) ==
    IF s = <<>> THEN <<>>
    ELSE IF Head(s) = "/" THEN Parts(Tail(s))
    ELSE LET n == RunLen(s)
         IN  <<SubSeq(s, 1, n)>> \o Parts(SubSeq(s, n + 1, Len(s)))

\* the database a Database object reads and writes
DB == [folders |-> folders, prompts |-> prompts, tags |-> tags,
       prompt_tags |-> prompt_tags]

Result(db, ret, raised) == [db |-> db, ret |-> ret, raised |-> raised]
\* no exception
NoExc == "-"

----------------------------------------------------------------------------
(* models.py: the Pydantic validation the store and the tools run *)

HexDigits == {"0","1","2","3","4","5","6","7","8","9",
              "A","B","C","D","E","F","a","b","c","d","e","f"}
\* Field(None, pattern=r'^#[0-9A-Fa-f]{6}$')
MatchesColorPattern(c) ==
    Len(c) = 7 /\ c[1] = "#" /\ \A i \in 2..7 : c[i] \in HexDigits
\* a tag without category (category = None)
NoCategory == "<None>"
\* Tag.model_validate(tag_db): name has min_length 1, color matches the pattern
TagValidates(t) ==
    /\ t.name # ""
    /\ (t.color = NoText \/ MatchesColorPattern(t.color))
\* PromptCreate(...): title and content are required, non-empty strings
MaxTitleLen == 200
PromptCreateValidates(d) ==
    /\ d.title # NoText /\ Len(d.title) >= 1 /\ Len(d.title) <= MaxTitleLen
    /\ d.content # NoText /\ Len(d.content) >= 1
\* PromptUpdate(...): a present title or content is non-empty
PromptUpdateValidates(d) ==
    /\ (d.title # NoText => Len(d.title) >= 1 /\ Len(d.title) <= MaxTitleLen)
    /\ (d.content # NoText => Len(d.content) >= 1)
\* PromptSearch(...): limit in 1..1000, offset >= 0
MinLimit == 1
MaxLimit == 1000
PromptSearchValidates(p) ==
    p.limit >= MinLimit /\ p.limit <= MaxLimit /\ p.offset >= 0

----------------------------------------------------------------------------
(* database.py: class Database *)

\* session.query(FolderDB).filter_by(path=path).first(): path is unique
FolderRows(db, path) == {f \in db.folders : f.path = path}
TagRows(db, name) == {t \in db.tags : t.name = name}
PromptRows(db, id) == {p \in db.prompts : p.id = id}
TheRow(rows) == CHOOSE r \in rows : TRUE
\* no row: Python None
NoRow == [id |-> NoId]

\* prompt_tags holds <<prompt_id, tag_id, n>>: n is the position of the row
\* in the rowid order of the table (the table has no INTEGER PRIMARY KEY, so
\* SQLite gives a new row the rowid max + 1; only the order is observable)
Linked(PT, pid, tid) == \E a \in PT : a[1] = pid /\ a[2] = tid
NextRowId(PT) == IF PT = {} THEN 1 ELSE SetMax({a[3] : a \in PT}) + 1
\* the rows that are left after a DELETE, in their order
Ranked(PT) ==
    {<<a[1], a[2], Cardinality({b \in PT : b[3] <= a[3]})>> : a \in PT}

\* the tag rows associated with a prompt (PromptDB.tags)
TagsOf(db, pid) == {t \in db.tags : Linked(db.prompt_tags, pid, t.id)}
\* [tag.name for tag in prompt.tags], as a set
TagNamesOfPrompt(db, pid) == {t.name : t \in TagsOf(db, pid)}
\* PromptDB.folder.path, or None
FolderPathOf(db, p) ==
    LET rows == {f \in db.folders : f.id = p.folder_id}
    IN  IF p.folder_id = NoId \/ rows = {} THEN NoText ELSE TheRow(rows).path

\* _create_folder_hierarchy: the loop over parts; folder is NoId while the
\* loop has not run (the local 'folder' is then unbound at the return)
RECURSIVE HierarchyLoop(_, _, _, _, _)
HierarchyLoop(F, parts, current_path, parent_id, folder) ==
    IF parts = <<>> THEN [folders |-> F, folder |-> folder]
    ELSE LET cp   == current_path \o <<"/">> \o Head(parts)
             rows == {f \in F : f.path = cp}
             row  == IF rows # {} THEN TheRow(rows)
                     ELSE [id |-> NextId(F), name |-> Head(parts),
                           path |-> cp, parent_id |-> parent_id]
         IN  HierarchyLoop(F \cup {row}, Tail(parts), cp, row.id, row.id)

create_folder_hierarchy(F, path) ==
    HierarchyLoop(F, Parts(path), <<>>, NoId, NoId)

\* a tag loop that never looks a name up
RECURSIVE AddTags_always_creating(_, _, _, _)
AddTags_always_creating(T, PT, pid, names) ==
    IF names = <<>> THEN [tags |-> T, prompt_tags |-> PT]
    ELSE LET tag == [id |-> NextId(T), name |-> Head(names),
                     category |-> "custom", color |-> NoText]
         IN  AddTags_always_creating(T \cup {tag},
                                     PT \cup {<<pid, tag.id, NextRowId(PT)>>},
                                     pid, Tail(names))

\* the tag loop of create_prompt and update_prompt: look each name up, create
\* a missing tag with category "custom", and associate it with the prompt (a
\* tag appended twice, or appended again after tags.clear(), is one row)
RECURSIVE AddTags(_, _, _, _)
AddTags(T, PT, pid, names) ==
    IF names = <<>> THEN [tags |-> T, prompt_tags |-> PT]
    ELSE LET rows == {t \in T : t.name = Head(names)}
             tag  == IF rows # {} THEN TheRow(rows)
                     ELSE [id |-> NextId(T), name |-> Head(names),
                           category |-> "custom", color |-> NoText]
             PT2  == IF Linked(PT, pid, tag.id) THEN PT
                     ELSE PT \cup {<<pid, tag.id, NextRowId(PT)>>}
         IN  AddTags(T \cup {tag}, PT2, pid, Tail(names))

\* _prompt_db_to_pydantic raises when a tag of the prompt does not validate
PromptConverts(db, pid) == \A t \in TagsOf(db, pid) : TagValidates(t)

\* Database.create_prompt; ret is the new prompt's id
create_prompt(db, d) ==
    LET hasPath == Truthy(d.folder_path)
        found   == FolderRows(db, d.folder_path)
        hier    == create_folder_hierarchy(db.folders, d.folder_path)
        F2      == IF hasPath /\ found = {} THEN hier.folders ELSE db.folders
        fid     == IF ~hasPath THEN NoId
                   ELSE IF found # {} THEN TheRow(found).id ELSE hier.folder
        pid     == NextId(db.prompts)
        row     == [id |-> pid, title |-> d.title, content |-> d.content,
                    description |-> d.description, folder_id |-> fid]
        tg      == AddTags(db.tags, db.prompt_tags, pid, d.tags)
        db2     == [folders |-> F2, prompts |-> db.prompts \cup {row},
                    tags |-> tg.tags, prompt_tags |-> tg.prompt_tags]
    IN  IF hasPath /\ found = {} /\ hier.folder = NoId
        THEN Result(db, NoId, "UnboundLocalError")
        ELSE IF ~PromptConverts(db2, pid)
        THEN Result(db2, NoId, "ValidationError")
        ELSE Result(db2, pid, NoExc)

\* Database.get_prompt; ret is the row or NoRow
get_prompt(db, id) ==
    LET rows == PromptRows(db, id)
    IN  IF rows = {} THEN Result(db, NoRow, NoExc)
        ELSE IF ~PromptConverts(db, id) THEN Result(db, NoRow, "ValidationError")
        ELSE Result(db, TheRow(rows), NoExc)

\* a delete_prompt that leaves the prompt's rows of prompt_tags behind
delete_prompt_keeping_tags(db, id) ==
    IF {p \in db.prompts : p.id = id} = {}
    THEN [db |-> db, ret |-> FALSE, raised |-> "-"]
    ELSE [db |-> [db EXCEPT !.prompts = {p \in @ : p.id # id}],
          ret |-> TRUE, raised |-> "-"]

\* Database.delete_prompt; the ORM deletes the prompt's rows of prompt_tags
delete_prompt(db, id) ==
    IF PromptRows(db, id) = {} THEN Result(db, FALSE, NoExc)
    ELSE Result([db EXCEPT !.prompts = {p \in @ : p.id # id},
                           !.prompt_tags = Ranked({a \in @ : a[1] # id})],
                TRUE, NoExc)

\* a field absent from a PromptUpdate: tags = None
NoTags == <<"<None>">>

\* an update_prompt that adds the named tags to the tags the prompt has
update_prompt_merging(db, id, d) ==
    LET rows    == {p \in db.prompts : p.id = id}
        old     == CHOOSE p \in rows : TRUE
        setPath == d.folder_path # <<"None">>
        found   == {f \in db.folders : f.path = d.folder_path}
        create  == setPath /\ found = {} /\ d.folder_path # <<>>
        hier    == create_folder_hierarchy(db.folders, d.folder_path)
        F2      == IF create THEN hier.folders ELSE db.folders
        fid     == IF ~setPath THEN old.folder_id
                   ELSE IF found # {} THEN (CHOOSE f \in found : TRUE).id
                   ELSE IF create THEN hier.folder ELSE 0
        row     == [id |-> id,
                    title |-> IF d.title # <<"None">> THEN d.title ELSE old.title,
                    content |-> IF d.content # <<"None">> THEN d.content
                                ELSE old.content,
                    description |-> IF d.description # <<"None">> THEN d.description
                                    ELSE old.description,
                    folder_id |-> fid]
        cleared == db.prompt_tags
        tg      == IF d.tags = <<"<None>">>
                   THEN [tags |-> db.tags, prompt_tags |-> db.prompt_tags]
                   ELSE AddTags(db.tags, cleared, id, d.tags)
        db2     == [folders |-> F2, prompts |-> (db.prompts \ {old}) \cup {row},
                    tags |-> tg.tags, prompt_tags |-> tg.prompt_tags]
    IN  IF rows = {} THEN [db |-> db, ret |-> 0, raised |-> "-"]
        ELSE IF create /\ hier.folder = 0
        THEN [db |-> db, ret |-> 0, raised |-> "UnboundLocalError"]
        ELSE IF ~PromptConverts(db2, id)
        THEN [db |-> db2, ret |-> 0, raised |-> "ValidationError"]
        ELSE [db |-> db2, ret |-> id, raised |-> "-"]

\* an update_prompt that stores the description of the update even when
\* the update has none
update_prompt_overwriting(db, id, d) ==
    LET rows    == {p \in db.prompts : p.id = id}
        old     == CHOOSE p \in rows : TRUE
        setPath == d.folder_path # <<"None">>
        found   == {f \in db.folders : f.path = d.folder_path}
        create  == setPath /\ found = {} /\ d.folder_path # <<>>
        hier    == create_folder_hierarchy(db.folders, d.folder_path)
        F2      == IF create THEN hier.folders ELSE db.folders
        fid     == IF ~setPath THEN old.folder_id
                   ELSE IF found # {} THEN (CHOOSE f \in found : TRUE).id
                   ELSE IF create THEN hier.folder ELSE 0
        row     == [id |-> id,
                    title |-> IF d.title # <<"None">> THEN d.title ELSE old.title,
                    content |-> IF d.content # <<"None">> THEN d.content
                                ELSE old.content,
                    description |-> d.description,
                    folder_id |-> fid]
        cleared == {a \in db.prompt_tags : a[1] # id}
        tg      == IF d.tags = <<"<None>">>
                   THEN [tags |-> db.tags, prompt_tags |-> db.prompt_tags]
                   ELSE AddTags(db.tags, cleared, id, d.tags)
        db2     == [folders |-> F2, prompts |-> (db.prompts \ {old}) \cup {row},
                    tags |-> tg.tags, prompt_tags |-> tg.prompt_tags]
    IN  IF rows = {} THEN [db |-> db, ret |-> 0, raised |-> "-"]
        ELSE IF create /\ hier.folder = 0
        THEN [db |-> db, ret |-> 0, raised |-> "UnboundLocalError"]
        ELSE IF ~PromptConverts(db2, id)
        THEN [db |-> db2, ret |-> 0, raised |-> "ValidationError"]
        ELSE [db |-> db2, ret |-> id, raised |-> "-"]

\* Database.update_prompt; ret is the prompt's id, NoId for None
update_prompt(db, id, d) ==
    LET rows    == PromptRows(db, id)
        old     == TheRow(rows)
        setPath == d.folder_path # NoText
        found   == FolderRows(db, d.folder_path)
        create  == setPath /\ found = {} /\ d.folder_path # <<>>
        hier    == create_folder_hierarchy(db.folders, d.folder_path)
        F2      == IF create THEN hier.folders ELSE db.folders
        fid     == IF ~setPath THEN old.folder_id
                   ELSE IF found # {} THEN TheRow(found).id
                   ELSE IF create THEN hier.folder ELSE NoId
        row     == [id |-> id,
                    title |-> IF d.title # NoText THEN d.title ELSE old.title,
                    content |-> IF d.content # NoText THEN d.content
                                ELSE old.content,
                    description |-> IF d.description # NoText THEN d.description
                                    ELSE old.description,
                    folder_id |-> fid]
        kept    == {t.id : t \in {u \in db.tags :
                                     \E i \in 1..Len(d.tags) : u.name = d.tags[i]}}
        cleared == {a \in db.prompt_tags : a[1] # id \/ a[2] \in kept}
        tg      == IF d.tags = NoTags
                   THEN [tags |-> db.tags, prompt_tags |-> db.prompt_tags]
                   ELSE AddTags(db.tags, cleared, id, d.tags)
        db2     == [folders |-> F2, prompts |-> (db.prompts \ {old}) \cup {row},
                    tags |-> tg.tags, prompt_tags |-> Ranked(tg.prompt_tags)]
    IN  IF rows = {} THEN Result(db, NoId, NoExc)
        ELSE IF create /\ hier.folder = NoId
        THEN Result(db, NoId, "UnboundLocalError")
        ELSE IF ~PromptConverts(db2, id)
        THEN Result(db2, NoId, "ValidationError")
        ELSE Result(db2, id, NoExc)

\* Database.get_folder_by_path; ret is the row or NoRow
get_folder_by_path(db, path) ==
    LET rows == FolderRows(db, path)
    IN  Result(db, IF rows = {} THEN NoRow ELSE TheRow(rows), NoExc)

\* the rows of a table in rowid order, as query.all() returns them
RECURSIVE ById(_)
ById(rows) ==
    IF rows = {} THEN <<>>
    ELSE LET r == CHOOSE x \in rows : \A y \in rows : x.id <= y.id
         IN  <<r>> \o ById(rows \ {r})

\* Database.list_folders; ret is the list of Folder objects with prompt_count
list_folders(db, parent_path) ==
    LET prows == FolderRows(db, parent_path)
        rows  == IF parent_path = NoText THEN db.folders
                 ELSE IF prows = {} THEN {}
                 ELSE {f \in db.folders : f.parent_id = TheRow(prows).id}
        list  == ById(rows)
        count(f) == Cardinality({p \in db.prompts : p.folder_id = f.id})
    IN  Result(db,
               [i \in 1..Len(list) |->
                   [id |-> list[i].id, name |-> list[i].name,
                    path |-> list[i].path, parent_id |-> list[i].parent_id,
                    prompt_count |-> count(list[i])]],
               NoExc)

\* a delete_folder that unfiles the folder's prompts instead of moving them
\* to the parent folder
delete_folder_unfiling(db, path) ==
    LET rows   == {f \in db.folders : f.path = path}
        folder == CHOOSE f \in rows : TRUE
        P2     == {IF p.folder_id = folder.id
                   THEN [p EXCEPT !.folder_id = 0] ELSE p : p \in db.prompts}
        F2     == {IF f.parent_id = folder.id
                   THEN [f EXCEPT !.parent_id = 0] ELSE f
                   : f \in db.folders \ {folder}}
    IN  IF rows = {} THEN [db |-> db, ret |-> FALSE, raised |-> "-"]
        ELSE [db |-> [db EXCEPT !.folders = F2, !.prompts = P2], ret |-> TRUE,
              raised |-> "-"]

\* a delete_folder that deletes the folders below the path as well
delete_folder_recursive(db, path) ==
    LET rows   == {f \in db.folders : f.path = path}
        folder == CHOOSE f \in rows : TRUE
        below  == {f \in db.folders :
                      Len(f.path) > Len(path)
                      /\ SubSeq(f.path, 1, Len(path) + 1) = path \o <<"/">>}
        gone   == {f.id : f \in below \cup {folder}}
        P2     == {IF p.folder_id \in gone
                   THEN [p EXCEPT !.folder_id = folder.parent_id] ELSE p
                   : p \in db.prompts}
    IN  IF rows = {} THEN [db |-> db, ret |-> FALSE, raised |-> "-"]
        ELSE [db |-> [db EXCEPT !.folders = @ \ (below \cup {folder}),
                                !.prompts = P2],
              ret |-> TRUE, raised |-> "-"]

\* a delete_folder that leaves the parent_id of the child folders as it is
delete_folder_leaving_children(db, path) ==
    LET rows   == FolderRows(db, path)
        folder == TheRow(rows)
        moved  == {IF p.folder_id = folder.id
                   THEN [p EXCEPT !.folder_id = folder.parent_id] ELSE p
                   : p \in db.prompts}
    IN  IF rows = {} THEN Result(db, FALSE, NoExc)
        ELSE Result([db EXCEPT !.folders = @ \ {folder}, !.prompts = moved],
                    TRUE, NoExc)

\* Database.delete_folder.  session.delete(folder) makes the ORM set the
\* foreign key of the rows that still refer to the folder to NULL: the
\* parent_id of its child folders (relationship children) and the folder_id
\* of its prompts (relationship prompts, none left after the update)
delete_folder(db, path) ==
    LET rows   == FolderRows(db, path)
        folder == TheRow(rows)
        moved  == {IF p.folder_id = folder.id
                   THEN [p EXCEPT !.folder_id = folder.parent_id] ELSE p
                   : p \in db.prompts}
        P2     == {IF p.folder_id = folder.id
                   THEN [p EXCEPT !.folder_id = NoId] ELSE p : p \in moved}
        F2     == {IF f.parent_id = folder.id
                   THEN [f EXCEPT !.parent_id = NoId] ELSE f
                   : f \in db.folders \ {folder}}
    IN  IF rows = {} THEN Result(db, FALSE, NoExc)
        ELSE Result([db EXCEPT !.folders = F2, !.prompts = P2], TRUE, NoExc)

\* Database.create_folder: one row, with the parent's id when parent_path
\* names a folder; path is UNIQUE
create_folder(db, name, path, parent_path) ==
    LET prows == FolderRows(db, parent_path)
        pid   == IF Truthy(parent_path) /\ prows # {} THEN TheRow(prows).id
                 ELSE NoId
        row   == [id |-> NextId(db.folders), name |-> name, path |-> path,
                  parent_id |-> pid]
    IN  IF FolderRows(db, path) # {} THEN Result(db, NoRow, "IntegrityError")
        ELSE Result([db EXCEPT !.folders = @ \cup {row}], row, NoExc)

\* Database.create_tag: the row is committed, then validated; name is UNIQUE
create_tag(db, name, category, color) ==
    LET row == [id |-> NextId(db.tags), name |-> name, category |-> category,
                color |-> color]
        db2 == [db EXCEPT !.tags = @ \cup {row}]
    IN  IF TagRows(db, name) # {} THEN Result(db, NoRow, "IntegrityError")
        ELSE IF ~TagValidates(row) THEN Result(db2, NoRow, "ValidationError")
        ELSE Result(db2, row, NoExc)

\* Database.get_tag_by_name
get_tag_by_name(db, name) ==
    LET rows == TagRows(db, name)
    IN  IF rows = {} THEN Result(db, NoRow, NoExc)
        ELSE IF ~TagValidates(TheRow(rows))
        THEN Result(db, NoRow, "ValidationError")
        ELSE Result(db, TheRow(rows), NoExc)

\* Database.list_tags: every row is validated
list_tags(db, category) ==
    LET rows == IF category # NoCategory /\ category # ""
                THEN {t \in db.tags : t.category = category} ELSE db.tags
    IN  IF \E t \in rows : ~TagValidates(t)
        THEN Result(db, <<>>, "ValidationError")
        ELSE Result(db, ById(rows), NoExc)

\* Database.delete_tag; the ORM deletes the tag's rows of prompt_tags
delete_tag(db, name) ==
    LET rows == TagRows(db, name)
        tag  == TheRow(rows)
    IN  IF rows = {} THEN Result(db, FALSE, NoExc)
        ELSE Result([db EXCEPT !.tags = @ \ {tag},
                               !.prompt_tags = Ranked({a \in @ : a[2] # tag.id})],
                    TRUE, NoExc)

\* SQL lower() on one character (ASCII letters)
UpperCase == <<"A","B","C","D","E","F","G","H","I","J","K","L","M",
               "N","O","P","Q","R","S","T","U","V","W","X","Y","Z">>
LowerCase == <<"a","b","c","d","e","f","g","h","i","j","k","l","m",
               "n","o","p","q","r","s","t","u","v","w","x","y","z">>
Lower(c) ==
    IF \E i \in 1..Len(UpperCase) : UpperCase[i] = c
    THEN LowerCase[CHOOSE i \in 1..Len(UpperCase) : UpperCase[i] = c]
    ELSE c

\* SQL: lower(text) LIKE lower(pattern), "%" any run, "_" any one character
RECURSIVE Like(_, _)
Like(t, pat) ==
    IF pat = <<>> THEN t = <<>>
    ELSE IF Head(pat) = "%"
    THEN Like(t, Tail(pat)) \/ (t # <<>> /\ Like(Tail(t), pat))
    ELSE IF Head(pat) = "_"
    THEN t # <<>> /\ Like(Tail(t), Tail(pat))
    ELSE t # <<>> /\ Lower(Head(t)) = Lower(Head(pat))
                  /\ Like(Tail(t), Tail(pat))
\* column.ilike(term): NULL matches nothing
ILike(column, term) == column # NoText /\ Like(column, term)

\* query.offset(offset).limit(limit) on a list
Page(list, offset, limit) ==
    SubSeq(list, offset + 1,
           IF offset + limit < Len(list) THEN offset + limit ELSE Len(list))

\* a search_prompts whose tag list is an OR filter
search_prompts_any_tag(db, sp) ==
    LET term  == <<"%">> \o sp.query \o <<"%">>
        q1    == IF Truthy(sp.query)
                 THEN {p \in db.prompts :
                          \/ ILike(p.title, term)
                          \/ ILike(p.content, term)
                          \/ ILike(p.description, term)}
                 ELSE db.prompts
        frows == {f \in db.folders : f.path = sp.folder_path}
        q2    == IF Truthy(sp.folder_path)
                 THEN {p \in q1 : p.folder_id = (CHOOSE f \in frows : TRUE).id}
                 ELSE q1
        known == {t \in db.tags : \E i \in 1..Len(sp.tags) : t.name = sp.tags[i]}
        q3    == {p \in q2 : known = {} \/
                              \E t \in known : Linked(db.prompt_tags, p.id, t.id)}
        page  == Page(ById(q3), sp.offset, sp.limit)
    IN  IF Truthy(sp.folder_path) /\ frows = {}
        THEN [db |-> db, ret |-> [prompts |-> <<>>, total |-> 0], raised |-> "-"]
        ELSE IF \E i \in 1..Len(page) : ~PromptConverts(db, page[i].id)
        THEN [db |-> db, ret |-> [prompts |-> <<>>, total |-> 0],
              raised |-> "ValidationError"]
        ELSE [db |-> db, ret |-> [prompts |-> page, total |-> Cardinality(q3)],
              raised |-> "-"]

\* the order of the rows of a search.  The query has no ORDER BY.  Without
\* a tag filter SQLite scans prompts in rowid order.  PromptDB.tags.contains
\* joins prompt_tags (FROM prompts, prompt_tags AS prompt_tags_1 WHERE ...):
\* SQLite then scans the prompt_tags rows of the first tag that was found,
\* in rowid order, and looks each prompt up
RankOf(db, p, tid) ==
    (CHOOSE a \in db.prompt_tags : a[1] = p.id /\ a[2] = tid)[3]
RECURSIVE ByRank(_, _, _)
ByRank(db, rows, tid) ==
    IF rows = {} THEN <<>>
    ELSE LET r == CHOOSE x \in rows :
                     \A y \in rows : RankOf(db, x, tid) <= RankOf(db, y, tid)
         IN  <<r>> \o ByRank(db, rows \ {r}, tid)
ScanOrder(db, sp, rows) ==
    LET found == IF sp.tags = NoTags THEN {}
                 ELSE {i \in 1..Len(sp.tags) : TagRows(db, sp.tags[i]) # {}}
        first == CHOOSE i \in found : \A j \in found : i <= j
    IN  IF found = {} THEN ById(rows)
        ELSE ByRank(db, rows, TheRow(TagRows(db, sp.tags[first])).id)

\* a search_prompts that drops the folder filter when no folder has the path
search_prompts_missing_folder_unfiltered(db, sp) ==
    LET term  == <<"%">> \o sp.query \o <<"%">>
        q1    == IF Truthy(sp.query)
                 THEN {p \in db.prompts :
                          \/ ILike(p.title, term)
                          \/ ILike(p.content, term)
                          \/ ILike(p.description, term)}
                 ELSE db.prompts
        frows == FolderRows(db, sp.folder_path)
        q2    == IF Truthy(sp.folder_path) /\ frows # {}
                 THEN {p \in q1 : p.folder_id = TheRow(frows).id} ELSE q1
        known == IF sp.tags = NoTags THEN {}
                 ELSE {t \in db.tags : \E i \in 1..Len(sp.tags) : t.name = sp.tags[i]}
        q3    == {p \in q2 : \A t \in known : Linked(db.prompt_tags, p.id, t.id)}
        page  == Page(ScanOrder(db, sp, q3), sp.offset, sp.limit)
    IN  IF \E i \in 1..Len(page) : ~PromptConverts(db, page[i].id)
        THEN Result(db, [prompts |-> <<>>, total |-> 0], "ValidationError")
        ELSE Result(db, [prompts |-> page, total |-> Cardinality(q3)], NoExc)

\* Database.search_prompts; ret is [prompts (the page, as rows), total]
search_prompts(db, sp) ==
    LET term  == <<"%">> \o sp.query \o <<"%">>
        q1    == IF Truthy(sp.query)
                 THEN {p \in db.prompts :
                          \/ ILike(p.title, term)
                          \/ ILike(p.content, term)
                          \/ ILike(p.description, term)}
                 ELSE db.prompts
        frows == FolderRows(db, sp.folder_path)
        q2    == IF Truthy(sp.folder_path)
                 THEN {p \in q1 : p.folder_id = TheRow(frows).id} ELSE q1
        known == IF sp.tags = NoTags THEN {}
                 ELSE {t \in db.tags : \E i \in 1..Len(sp.tags) : t.name = sp.tags[i]}
        q3    == {p \in q2 : \A t \in known : Linked(db.prompt_tags, p.id, t.id)}
        page  == Page(ScanOrder(db, sp, q3), sp.offset, sp.limit)
    IN  IF Truthy(sp.folder_path) /\ frows = {}
        THEN Result(db, [prompts |-> <<>>, total |-> 0], NoExc)
        ELSE IF \E i \in 1..Len(page) : ~PromptConverts(db, page[i].id)
        THEN Result(db, [prompts |-> <<>>, total |-> 0], "ValidationError")
        ELSE Result(db, [prompts |-> page, total |-> Cardinality(q3)], NoExc)

\* PromptSearch defaults
DefaultLimit == 100
SearchParams(query, folder_path, tagNames, limit) ==
    [query |-> query, folder_path |-> folder_path, tags |-> tagNames,
     limit |-> limit, offset |-> 0]

----------------------------------------------------------------------------
(* mcp_server.py: the tool handlers of MCPStdioServer.  A handler returns  *)
(* Result(db, payload, raised): payload.error says whether the payload is  *)
(* {"error": ...}; raised names the exception that left the handler.       *)

Slash == <<"/">>
\* "if not path.startswith('/'): path = '/' + path"
WithLeadingSlash(path) == IF StartsWith(path, Slash) THEN path ELSE Slash \o path

ErrorPayload(msg) == [error |-> TRUE, message |-> msg]
NoPayload == [error |-> FALSE, message |-> "raised"]

\* title and content of the placeholder prompts
TempTitle == <<"_","_","t","e","m","p","_","_">>
TempForFolderTitle ==
    <<"_","_","t","e","m","p","_","f","o","r","_","f","o","l","d","e","r","_","_">>
TempContent == <<"t","e","m","p">>
TempPrompt(title, folder_path) ==
    [title |-> title, content |-> TempContent, description |-> NoText,
     folder_path |-> folder_path, tags |-> <<>>]

\* _create_folder_if_not_exists
create_folder_if_not_exists(db, folder_path) ==
    LET existing == list_folders(db, NoText).ret
        created  == create_prompt(db, TempPrompt(TempForFolderTitle, folder_path))
    IN  IF \E i \in 1..Len(existing) : existing[i].path = folder_path
        THEN Result(db, NoId, NoExc)
        ELSE IF created.raised # NoExc THEN created
        ELSE delete_prompt(created.db, created.ret)

\* the path a folder or prompt of the renamed subtree moves to
RenamedPath(path, old_path, new_path) ==
    IF path = old_path THEN new_path
    ELSE new_path \o SubSeq(path, Len(old_path) + 1, Len(path))

\* "for folder in folders_to_update: self._create_folder_if_not_exists(...)"
RECURSIVE CreateNewFolders(_, _, _, _)
CreateNewFolders(db, list, old_path, new_path) ==
    IF list = <<>> THEN Result(db, NoId, NoExc)
    ELSE LET r == create_folder_if_not_exists(
                      db, RenamedPath(Head(list).path, old_path, new_path))
         IN  IF r.raised # NoExc THEN r
             ELSE CreateNewFolders(r.db, Tail(list), old_path, new_path)

\* PromptUpdate(id=..., folder_path=...)
FolderPathUpdate(folder_path) ==
    [title |-> NoText, content |-> NoText, description |-> NoText,
     folder_path |-> folder_path, tags |-> NoTags]

\* "for prompt in prompts_to_update: self.db.update_prompt(...)"; an element
\* of the list is [id, folder_path] as the search returned it
RECURSIVE MovePrompts(_, _, _, _)
MovePrompts(db, list, old_path, new_path) ==
    IF list = <<>> THEN Result(db, NoId, NoExc)
    ELSE LET r == update_prompt(db, Head(list).id,
                      FolderPathUpdate(
                          RenamedPath(Head(list).folder_path, old_path, new_path)))
         IN  IF r.raised # NoExc THEN r
             ELSE MovePrompts(r.db, Tail(list), old_path, new_path)

\* list.sort(key=lambda f: f.path.count('/'), reverse=True): a stable sort
RECURSIVE DeepestFirst(_)
DeepestFirst(list) ==
    IF list = <<>> THEN <<>>
    ELSE LET depth(i) == CountChar(list[i].path, "/")
             k == CHOOSE i \in 1..Len(list) :
                      /\ \A j \in 1..Len(list) : depth(j) <= depth(i)
                      /\ \A j \in 1..(i - 1) : depth(j) < depth(i)
         IN  <<list[k]>> \o
             DeepestFirst(SubSeq(list, 1, k - 1) \o SubSeq(list, k + 1, Len(list)))

\* "for folder in folders_to_update: self.db.delete_folder(folder.path)"
RECURSIVE DeleteOldFolders(_, _)
DeleteOldFolders(db, list) ==
    IF list = <<>> THEN Result(db, NoId, NoExc)
    ELSE DeleteOldFolders(delete_folder(db, Head(list).path).db, Tail(list))

\* the searches that collect prompts_to_update: the old folder first, then
\* every other folder of folders_to_update
RenameSearchLimit == 1000
RECURSIVE CollectPrompts(_, _, _)
CollectPrompts(db, paths, acc) ==
    IF paths = <<>> THEN Result(db, acc, NoExc)
    ELSE LET r == search_prompts(db,
                      SearchParams(NoText, Head(paths), NoTags, RenameSearchLimit))
             found == [i \in 1..Len(r.ret.prompts) |->
                          [id |-> r.ret.prompts[i].id,
                           folder_path |-> FolderPathOf(db, r.ret.prompts[i])]]
         IN  IF r.raised # NoExc THEN Result(db, acc, r.raised)
             ELSE CollectPrompts(db, Tail(paths), acc \o found)

SelectPaths(list, Keep(_)) ==
    LET kept == SelectSeq(list, Keep) IN [i \in 1..Len(kept) |-> kept[i].path]

\* an _update_folder_tool that takes every folder whose path starts with
\* old_path for a folder of the renamed subtree
update_folder_tool_prefix_matching(db, arguments) ==
    LET old_path == WithLeadingSlash(arguments.old_path)
        new_path == WithLeadingSlash(arguments.new_path)
        all      == list_folders(db, NoText).ret
        InSubtree(f) == StartsWith(f.path, old_path)
        IsChild(f)   == InSubtree(f) /\ f.path # old_path
        folders_to_update == SelectSeq(all, InSubtree)
        collected == CollectPrompts(db,
                         <<old_path>> \o SelectPaths(all, IsChild), <<>>)
        made     == CreateNewFolders(db, folders_to_update, old_path, new_path)
        moved    == MovePrompts(made.db, collected.ret, old_path, new_path)
        deleted  == DeleteOldFolders(moved.db, DeepestFirst(folders_to_update))
        failed   == ErrorPayload("Failed to rename folder")
    IN  IF ~Truthy(arguments.old_path) \/ ~Truthy(arguments.new_path)
        THEN Result(db, NoPayload, "ValueError")
        ELSE IF ~\E i \in 1..Len(all) : all[i].path = old_path
        THEN Result(db, ErrorPayload("not found"), NoExc)
        ELSE IF \E i \in 1..Len(all) : all[i].path = new_path
        THEN Result(db, ErrorPayload("already exists"), NoExc)
        ELSE IF old_path = Slash
        THEN Result(db, ErrorPayload("Cannot rename the root folder"), NoExc)
        ELSE IF StartsWith(new_path, old_path \o Slash)
        THEN Result(db, ErrorPayload("child of itself"), NoExc)
        ELSE IF collected.raised # NoExc THEN Result(db, failed, NoExc)
        ELSE IF made.raised # NoExc THEN Result(made.db, failed, NoExc)
        ELSE IF moved.raised # NoExc THEN Result(moved.db, failed, NoExc)
        ELSE Result(deleted.db,
                    [error |-> FALSE, message |-> "Renamed folder",
                     old_path |-> old_path, new_path |-> new_path,
                     folders_updated |-> Len(folders_to_update),
                     prompts_updated |-> Len(collected.ret)],
                    NoExc)

\* _update_folder_tool
update_folder_tool(db, arguments) ==
    LET old_path == WithLeadingSlash(arguments.old_path)
        new_path == WithLeadingSlash(arguments.new_path)
        all      == list_folders(db, NoText).ret
        InSubtree(f) == f.path = old_path \/ StartsWith(f.path, old_path \o Slash)
        IsChild(f)   == InSubtree(f) /\ f.path # old_path
        folders_to_update == SelectSeq(all, InSubtree)
        collected == CollectPrompts(db,
                         <<old_path>> \o SelectPaths(all, IsChild), <<>>)
        made     == CreateNewFolders(db, folders_to_update, old_path, new_path)
        moved    == MovePrompts(made.db, collected.ret, old_path, new_path)
        deleted  == DeleteOldFolders(moved.db, DeepestFirst(folders_to_update))
        failed   == ErrorPayload("Failed to rename folder")
    IN  IF ~Truthy(arguments.old_path) \/ ~Truthy(arguments.new_path)
        THEN Result(db, NoPayload, "ValueError")
        ELSE IF ~\E i \in 1..Len(all) : all[i].path = old_path
        THEN Result(db, ErrorPayload("not found"), NoExc)
        ELSE IF \E i \in 1..Len(all) : all[i].path = new_path
        THEN Result(db, ErrorPayload("already exists"), NoExc)
        ELSE IF old_path = Slash
        THEN Result(db, ErrorPayload("Cannot rename the root folder"), NoExc)
        ELSE IF StartsWith(new_path, old_path \o Slash)
        THEN Result(db, ErrorPayload("child of itself"), NoExc)
        ELSE IF collected.raised # NoExc THEN Result(db, failed, NoExc)
        ELSE IF made.raised # NoExc THEN Result(made.db, failed, NoExc)
        ELSE IF moved.raised # NoExc THEN Result(moved.db, failed, NoExc)
        ELSE Result(deleted.db,
                    [error |-> FALSE, message |-> "Renamed folder",
                     old_path |-> old_path, new_path |-> new_path,
                     folders_updated |-> Len(folders_to_update),
                     prompts_updated |-> Len(collected.ret)],
                    NoExc)

\* _delete_folder_tool
delete_folder_tool(db, arguments) ==
    LET folder_path == WithLeadingSlash(arguments.folder_path)
        all         == list_folders(db, NoText).ret
        deleted     == delete_folder(db, folder_path)
    IN  IF ~Truthy(arguments.folder_path)
        THEN Result(db, NoPayload, "ValueError")
        ELSE IF ~\E i \in 1..Len(all) : all[i].path = folder_path
        THEN Result(db, ErrorPayload("not found"), NoExc)
        ELSE IF folder_path = Slash
        THEN Result(db, ErrorPayload("Cannot delete the root folder"), NoExc)
        ELSE IF deleted.ret
        THEN Result(deleted.db,
                    [error |-> FALSE, message |-> "Deleted folder",
                     folder_path |-> folder_path,
                     moved |-> all[CHOOSE i \in 1..Len(all) :
                                      all[i].path = folder_path].prompt_count],
                    NoExc)
        ELSE Result(deleted.db, ErrorPayload("Failed to delete folder"), NoExc)

\* _create_folder_tool
create_folder_tool(db, arguments) ==
    LET created == create_prompt(db, TempPrompt(TempTitle, arguments.folder_path))
    IN  IF ~Truthy(arguments.folder_path)
        THEN Result(db, NoPayload, "ValueError")
        ELSE IF created.raised # NoExc THEN Result(created.db, NoPayload, created.raised)
        ELSE Result(delete_prompt(created.db, created.ret).db,
                    [error |-> FALSE, message |-> "Created folder path",
                     folder_path |-> arguments.folder_path], NoExc)

\* a _create_prompt_tool that stores the prompt before PromptCreate has
\* validated the arguments
create_prompt_tool_storing_first(db, arguments) ==
    LET created == create_prompt(db, arguments)
    IN  IF ~PromptCreateValidates(arguments)
        THEN [db |-> created.db, ret |-> [error |-> FALSE, message |-> "raised"],
              raised |-> "ValidationError"]
        ELSE IF created.raised # "-"
        THEN [db |-> created.db, ret |-> [error |-> FALSE, message |-> "raised"],
              raised |-> created.raised]
        ELSE [db |-> created.db,
              ret |-> [error |-> FALSE, message |-> "created", id |-> created.ret,
                       folder_path |-> FolderPathOf(created.db,
                           CHOOSE p \in created.db.prompts : p.id = created.ret)],
              raised |-> "-"]

\* _create_prompt_tool: PromptCreate(...) validates before the store is called
create_prompt_tool(db, arguments) ==
    LET created == create_prompt(db, arguments)
    IN  IF ~PromptCreateValidates(arguments)
        THEN Result(db, NoPayload, "ValidationError")
        ELSE IF created.raised # NoExc THEN Result(created.db, NoPayload, created.raised)
        ELSE Result(created.db,
                    [error |-> FALSE, message |-> "created", id |-> created.ret,
                     folder_path |-> FolderPathOf(created.db,
                                         TheRow(PromptRows(created.db, created.ret)))],
                    NoExc)

\* _update_prompt_tool; a field the arguments leave out (or give as null)
\* is NoText, NoTags for tags
update_prompt_tool(db, arguments) ==
    LET current_prompt == get_prompt(db, arguments.prompt_id)
        updated == update_prompt(db, arguments.prompt_id, arguments)
    IN  IF arguments.prompt_id = NoId THEN Result(db, NoPayload, "ValueError")
        ELSE IF current_prompt.raised # NoExc
        THEN Result(db, NoPayload, current_prompt.raised)
        ELSE IF current_prompt.ret = NoRow
        THEN Result(db, ErrorPayload("not found"), NoExc)
        ELSE IF ~PromptUpdateValidates(arguments)
        THEN Result(db, NoPayload, "ValidationError")
        ELSE IF updated.raised # NoExc
        THEN Result(updated.db, NoPayload, updated.raised)
        ELSE Result(updated.db,
                    [error |-> FALSE, message |-> "updated",
                     id |-> updated.ret,
                     folder_path |-> FolderPathOf(updated.db,
                                         TheRow(PromptRows(updated.db, updated.ret)))],
                    NoExc)

\* _delete_prompt_tool
delete_prompt_tool(db, arguments) ==
    LET prompt == get_prompt(db, arguments.prompt_id)
    IN  IF arguments.prompt_id = NoId THEN Result(db, NoPayload, "ValueError")
        ELSE IF prompt.raised # NoExc THEN Result(db, NoPayload, prompt.raised)
        ELSE IF prompt.ret = NoRow THEN Result(db, ErrorPayload("not found"), NoExc)
        ELSE Result(delete_prompt(db, arguments.prompt_id).db,
                    [error |-> FALSE, message |-> "Deleted prompt"], NoExc)

\* a _get_prompt_tool that reads the fields of the prompt it did not find
get_prompt_tool_reading_none(db, arguments) ==
    LET prompt == get_prompt(db, arguments.prompt_id)
    IN  IF arguments.prompt_id = 0 THEN [db |-> db, ret |-> [error |-> FALSE,
                                          message |-> "raised"], raised |-> "ValueError"]
        ELSE IF prompt.raised # "-"
        THEN [db |-> db, ret |-> [error |-> FALSE, message |-> "raised"],
              raised |-> prompt.raised]
        ELSE IF prompt.ret = [id |-> 0]
        THEN [db |-> db, ret |-> [error |-> FALSE, message |-> "raised"],
              raised |-> "AttributeError"]
        ELSE [db |-> db, ret |-> [error |-> FALSE, message |-> "prompt",
                                  prompt_content |-> prompt.ret.content,
                                  title |-> prompt.ret.title], raised |-> "-"]

\* _get_prompt_tool
get_prompt_tool(db, arguments) ==
    LET prompt == get_prompt(db, arguments.prompt_id)
    IN  IF arguments.prompt_id = NoId THEN Result(db, NoPayload, "ValueError")
        ELSE IF prompt.raised # NoExc THEN Result(db, NoPayload, prompt.raised)
        ELSE IF prompt.ret = NoRow THEN Result(db, ErrorPayload("not found"), NoExc)
        ELSE Result(db, [error |-> FALSE, message |-> "prompt",
                         prompt_content |-> prompt.ret.content,
                         title |-> prompt.ret.title,
                         description |-> prompt.ret.description,
                         tags |-> TagNamesOfPrompt(db, prompt.ret.id),
                         folder_path |-> FolderPathOf(db, prompt.ret)], NoExc)

\* _search_prompts_tool: limit defaults to 10
ToolDefaultLimit == 10
search_prompts_tool(db, arguments) ==
    LET sp == SearchParams(arguments.query, arguments.folder_path, arguments.tags,
                           arguments.limit)
        r  == search_prompts(db, sp)
    IN  IF ~PromptSearchValidates(sp) THEN Result(db, NoPayload, "ValidationError")
        ELSE IF r.raised # NoExc THEN Result(db, NoPayload, r.raised)
        ELSE Result(db, [error |-> FALSE, message |-> "found",
                         prompts |-> r.ret.prompts, total |-> r.ret.total,
                         count |-> Len(r.ret.prompts)], NoExc)

\* _create_tag_tool
create_tag_tool(db, arguments) ==
    LET existing == get_tag_by_name(db, arguments.name)
        created  == create_tag(db, arguments.name, arguments.category,
                               arguments.color)
    IN  IF arguments.name = "" THEN Result(db, NoPayload, "ValueError")
        ELSE IF existing.raised # NoExc THEN Result(db, NoPayload, existing.raised)
        ELSE IF existing.ret # NoRow
        THEN Result(db, [error |-> FALSE, message |-> "already exists",
                         tag |-> existing.ret], NoExc)
        ELSE IF created.raised # NoExc
        THEN Result(created.db, NoPayload, created.raised)
        ELSE Result(created.db, [error |-> FALSE, message |-> "Created tag",
                                 tag |-> created.ret], NoExc)

\* _delete_tag_tool
delete_tag_tool(db, arguments) ==
    LET existing == get_tag_by_name(db, arguments.name)
        deleted  == delete_tag(db, arguments.name)
    IN  IF arguments.name = "" THEN Result(db, NoPayload, "ValueError")
        ELSE IF existing.raised # NoExc THEN Result(db, NoPayload, existing.raised)
        ELSE IF existing.ret = NoRow THEN Result(db, ErrorPayload("not found"), NoExc)
        ELSE IF deleted.ret
        THEN Result(deleted.db, [error |-> FALSE, message |-> "Deleted tag",
                                 tag_name |-> arguments.name], NoExc)
        ELSE Result(deleted.db, ErrorPayload("Failed to delete tag"), NoExc)

\* an argument the caller left out (arguments.get falls back to its default)
AbsentName == "<absent>"
AbsentColor == <<"<absent>">>
\* _update_tag_tool: the old tag is deleted and a new one created; whatever
\* is raised between the two is caught and returned as an {"error": ...}
\* result
update_tag_tool(db, arguments) ==
    LET existing  == get_tag_by_name(db, arguments.current_name)
        new_name  == IF arguments.new_name = AbsentName THEN existing.ret.name
                     ELSE arguments.new_name
        new_category == IF arguments.category = AbsentName
                        THEN existing.ret.category ELSE arguments.category
        new_color == IF arguments.color = AbsentColor THEN existing.ret.color
                     ELSE arguments.color
        name_conflict == get_tag_by_name(db, new_name)
        deleted   == delete_tag(db, arguments.current_name)
        updated_tag == create_tag(deleted.db, new_name, new_category, new_color)
    IN  IF arguments.current_name = "" THEN Result(db, NoPayload, "ValueError")
        ELSE IF existing.raised # NoExc THEN Result(db, NoPayload, existing.raised)
        ELSE IF existing.ret = NoRow THEN Result(db, ErrorPayload("not found"), NoExc)
        ELSE IF new_name # arguments.current_name /\ name_conflict.raised # NoExc
        THEN Result(db, NoPayload, name_conflict.raised)
        ELSE IF new_name # arguments.current_name /\ name_conflict.ret # NoRow
        THEN Result(db, ErrorPayload("already exists"), NoExc)
        ELSE IF updated_tag.raised # NoExc
        THEN Result(updated_tag.db, ErrorPayload("Failed to update tag"), NoExc)
        ELSE Result(updated_tag.db,
                    [error |-> FALSE, message |-> "Updated tag",
                     tag |-> updated_tag.ret,
                     old_name |-> arguments.current_name], NoExc)

\* str.replace(old, new) for a non-empty old: left to right, not overlapping
RECURSIVE Replace(_, _, _)
Replace(s, old, new) ==
    IF Len(s) < Len(old) THEN s
    ELSE IF StartsWith(s, old)
    THEN new \o Replace(SubSeq(s, Len(old) + 1, Len(s)), old, new)
    ELSE <<Head(s)>> \o Replace(Tail(s), old, new)

\* "for key, value in variables.items(): ..."; variables is the sequence of
\* the dict's <<key, value>> pairs in insertion order
RECURSIVE Substitute(_, _)
Substitute(content, variables) ==
    IF variables = <<>> THEN content
    ELSE LET key    == Head(variables)[1]
             value  == Head(variables)[2]
             single == Replace(content, <<"{">> \o key \o <<"}">>, value)
             double == Replace(single, <<"{","{">> \o key \o <<"}","}">>, value)
         IN  Substitute(double, Tail(variables))

\* _use_prompt_template_tool
use_prompt_template_tool(db, arguments) ==
    LET prompt == get_prompt(db, arguments.prompt_id)
    IN  IF arguments.prompt_id = NoId THEN Result(db, NoPayload, "ValueError")
        ELSE IF prompt.raised # NoExc THEN Result(db, NoPayload, prompt.raised)
        ELSE IF prompt.ret = NoRow THEN Result(db, ErrorPayload("not found"), NoExc)
        ELSE Result(db, [error |-> FALSE, message |-> "template",
                         prompt_content |-> Substitute(prompt.ret.content,
                                                       arguments.variables),
                         original_content |-> prompt.ret.content], NoExc)

\* _find_and_use_prompt_tool: the first of at most 5 matches
FindLimit == 5
find_and_use_prompt_tool(db, arguments) ==
    LET r == search_prompts(db, SearchParams(arguments.query, NoText, NoTags,
                                             FindLimit))
        best_prompt == r.ret.prompts[1]
    IN  IF ~Truthy(arguments.query) THEN Result(db, NoPayload, "ValueError")
        ELSE IF r.raised # NoExc THEN Result(db, NoPayload, r.raised)
        ELSE IF r.ret.prompts = <<>>
        THEN Result(db, ErrorPayload("No prompts found"), NoExc)
        ELSE Result(db, [error |-> FALSE, message |-> "template",
                         prompt_content |-> Substitute(best_prompt.content,
                                                       arguments.variables),
                         original_content |-> best_prompt.content,
                         prompt_id |-> best_prompt.id], NoExc)

----------------------------------------------------------------------------
(* mcp_server.py: handle_tools_call, handle_request and the read loop run *)

InternalError == -32603
MethodNotFound == -32601

\* a response object; kind "none" is no response at all
Response(kind, id, code, payload, data) ==
    [kind |-> kind, id |-> id, code |-> code, payload |-> payload, data |-> data]
NoResponse == Response("none", NoId, 0, NoPayload, NoExc)

\* handle_tools_call around a handler's Result r: an exception that leaves
\* the handler becomes the error -32603 with str(e) as data
ToolResponse(id, r) ==
    IF r.raised # NoExc
    THEN Response("error", id, InternalError, NoPayload, r.raised)
    ELSE Response("result", id, 0, r.ret, NoExc)

\* the lines the loop can read that are no tools/call request.  A line is
\* [json, object, method, params_null, id]: json is FALSE for text that
\* json.loads rejects, object is FALSE for JSON that is no object;
\* loads_raises is the exception json.loads raises, if any
Line(json, object, method, params_null, id) ==
    [json |-> json, object |-> object, method |-> method,
     params_null |-> params_null, id |-> id,
     loads_raises |-> IF json THEN NoExc ELSE "JSONDecodeError"]
\* a line of brackets nested deeper than the recursion limit: json.loads
\* raises RecursionError, which is no JSONDecodeError
DeepLine ==
    [Line(FALSE, FALSE, "", FALSE, NoId) EXCEPT !.loads_raises = "RecursionError"]
\* "request" before the first json.loads has returned
Unbound == [json |-> FALSE]

Notifications == {"notifications/cancelled", "notifications/initialized"}

\* a handle_request that answers a method it does not know like a
\* notification, with nothing
handle_request_unknown_ignored(request) ==
    IF request.method = "initialize"
    THEN IF request.params_null
         THEN [response |-> [kind |-> "none", id |-> 0, code |-> 0,
                             payload |-> [error |-> FALSE, message |-> "raised"],
                             data |-> "-"],
               raised |-> "AttributeError"]
         ELSE [response |-> [kind |-> "result", id |-> request.id, code |-> 0,
                             payload |-> [error |-> FALSE, message |-> "initialize"],
                             data |-> "-"],
               raised |-> "-"]
    ELSE IF request.method = "tools/list"
    THEN [response |-> [kind |-> "result", id |-> request.id, code |-> 0,
                        payload |-> [error |-> FALSE, message |-> "tools"],
                        data |-> "-"],
          raised |-> "-"]
    ELSE IF request.method = "tools/call"
    THEN [response |-> [kind |-> "error", id |-> request.id,
                        code |-> IF request.params_null THEN -32603 ELSE -32601,
                        payload |-> [error |-> FALSE, message |-> "raised"],
                        data |-> IF request.params_null THEN "AttributeError"
                                 ELSE "-"],
          raised |-> "-"]
    ELSE [response |-> [kind |-> "none", id |-> 0, code |-> 0,
                        payload |-> [error |-> FALSE, message |-> "raised"],
                        data |-> "-"],
          raised |-> "-"]

\* handle_request for the methods that do not touch the store (the lines of
\* LineInputs; resources/list and resources/read read the store and are no
\* such lines); raised is the exception that leaves handle_request
handle_request(request) ==
    IF request.method = "initialize"
    THEN IF request.params_null
         THEN [response |-> NoResponse, raised |-> "AttributeError"]
         ELSE [response |-> Response("result", request.id, 0,
                                     [error |-> FALSE, message |-> "initialize"],
                                     NoExc),
               raised |-> NoExc]
    ELSE IF request.method = "tools/list"
    THEN [response |-> Response("result", request.id, 0,
                                [error |-> FALSE, message |-> "tools"], NoExc),
          raised |-> NoExc]
    ELSE IF request.method = "tools/call"
    THEN \* handle_tools_call: params.get raises inside its try when params
         \* is null; a name that is no registered tool is -32601
         [response |-> IF request.params_null
                       THEN Response("error", request.id, InternalError,
                                     NoPayload, "AttributeError")
                       ELSE Response("error", request.id, MethodNotFound,
                                     NoPayload, NoExc),
          raised |-> NoExc]
    ELSE IF request.method \in Notifications
    THEN [response |-> NoResponse, raised |-> NoExc]
    ELSE [response |-> Response("error", request.id, MethodNotFound, NoPayload,
                                NoExc),
          raised |-> NoExc]

\* Database.list_prompts: PromptSearch(folder_path, limit, offset), searched
list_prompts(db, folder_path, limit, offset) ==
    LET sp == [SearchParams(NoText, folder_path, NoTags, limit)
                  EXCEPT !.offset = offset]
    IN  IF ~PromptSearchValidates(sp)
        THEN Result(db, [prompts |-> <<>>, total |-> 0], "ValidationError")
        ELSE search_prompts(db, sp)

\* str(n) and int(s) for decimal numerals
Digits == <<"0","1","2","3","4","5","6","7","8","9">>
RECURSIVE Str(_)
Str(n) == IF n < 10 THEN <<Digits[n + 1]>>
          ELSE Str(n \div 10) \o <<Digits[(n % 10) + 1]>>
IsNumeral(s) ==
    s # <<>> /\ \A i \in 1..Len(s) : \E d \in 1..10 : Digits[d] = s[i]
DigitValue(ch) == (CHOOSE d \in 1..10 : Digits[d] = ch) - 1
RECURSIVE ParseInt(_)
ParseInt(s) ==
    IF s = <<>> THEN 0
    ELSE 10 * ParseInt(SubSeq(s, 1, Len(s) - 1)) + DigitValue(s[Len(s)])

\* f"prompt:///{prompt.id}"
UriPrefix == <<"p","r","o","m","p","t",":","/","/","/">>
PromptUri(id) == UriPrefix \o Str(id)

\* handle_resources_list: one resource per prompt of list_prompts(limit=1000)
ResourceListLimit == 1000
PreviewLen == 100
InvalidParams == -32602
ResourceOf(p) ==
    [uri |-> PromptUri(p.id), name |-> p.title,
     description |->
        IF Truthy(p.description) THEN p.description
        ELSE <<"P","r","o","m","p","t",":"," ">>
             \o SubSeq(p.content, 1, IF Len(p.content) < PreviewLen
                                      THEN Len(p.content) ELSE PreviewLen)
             \o <<".",".",".">>]
handle_resources_list(db, request_id) ==
    LET r == list_prompts(db, NoText, ResourceListLimit, 0)
    IN  IF r.raised # NoExc
        THEN Response("error", request_id, InternalError, NoPayload, r.raised)
        ELSE Response("result", request_id, 0,
                      [error |-> FALSE, message |-> "resources",
                       resources |-> [i \in 1..Len(r.ret.prompts) |->
                                         ResourceOf(r.ret.prompts[i])]],
                      NoExc)

\* ', '.join(tag.name for tag in prompt.tags), the tags in the order of
\* their prompt_tags rows; a tag name is one piece of the text
RECURSIVE JoinTagNames(_, _)
JoinTagNames(db, rows) ==
    IF rows = {} THEN <<>>
    ELSE LET a    == CHOOSE x \in rows : \A y \in rows : x[3] <= y[3]
             name == TheRow({t \in db.tags : t.id = a[2]}).name
             rest == JoinTagNames(db, rows \ {a})
         IN  IF rest = <<>> THEN <<name>> ELSE <<name, ",", " ">> \o rest

\* _format_prompt_content: "\n".join(lines)
format_prompt_content(db, prompt) ==
    LET nl     == <<"\n">>
        folder == FolderPathOf(db, prompt)
        mine   == {a \in db.prompt_tags : a[1] = prompt.id}
    IN  <<"#"," ">> \o prompt.title \o nl \o nl
        \o (IF Truthy(prompt.description)
            THEN <<"*","*","D","e","s","c","r","i","p","t","i","o","n",":","*","*"," ">>
                 \o prompt.description \o nl \o nl
            ELSE <<>>)
        \o (IF Truthy(folder)
            THEN <<"*","*","F","o","l","d","e","r",":","*","*"," ">>
                 \o folder \o nl \o nl
            ELSE <<>>)
        \o (IF mine # {}
            THEN <<"*","*","T","a","g","s",":","*","*"," ">>
                 \o JoinTagNames(db, mine) \o nl \o nl
            ELSE <<>>)
        \o <<"-","-","-">> \o nl \o nl \o prompt.content

\* handle_resources_read; uri is NoText when params has no "uri"
handle_resources_read(db, request_id, uri) ==
    LET rest   == Replace(uri, UriPrefix, <<>>)
        prompt == get_prompt(db, ParseInt(rest))
    IN  IF ~Truthy(uri) \/ ~StartsWith(uri, UriPrefix)
        THEN Response("error", request_id, InvalidParams,
                      ErrorPayload("Invalid URI"), NoExc)
        ELSE IF ~IsNumeral(rest)
        THEN Response("error", request_id, InternalError, NoPayload, "ValueError")
        ELSE IF prompt.raised # NoExc
        THEN Response("error", request_id, InternalError, NoPayload, prompt.raised)
        ELSE IF prompt.ret = NoRow
        THEN Response("error", request_id, InvalidParams,
                      ErrorPayload("not found"), NoExc)
        ELSE Response("result", request_id, 0,
                      [error |-> FALSE, message |-> "contents", uri |-> uri,
                       text |-> format_prompt_content(db, prompt.ret)],
                      NoExc)

\* one iteration of the loop of run on a line that is not end of input,
\* with request what json.loads returned last:
\* [response written, running afterwards, request afterwards].
\*   - json.loads raises JSONDecodeError: logged, nothing written
\*   - json.loads raises another exception: the except clause writes -32603
\*     with the id of request, which is still the request of an earlier
\*     line ('request' in locals()), or with null when there was none
\*   - the JSON is no object: request.get raises AttributeError inside
\*     handle_request, and "request.get('id')" raises it again inside the
\*     except clause, which leaves the while loop for the outer except
\*   - handle_request raises on an object: the except clause writes -32603
run_iteration(line, request) ==
    IF line.loads_raises = "JSONDecodeError"
    THEN [response |-> NoResponse, running |-> TRUE, request |-> request]
    ELSE IF line.loads_raises # NoExc
    THEN [response |-> Response("error",
                                IF request = Unbound THEN NoId ELSE request.id,
                                InternalError, NoPayload, line.loads_raises),
          running |-> TRUE, request |-> request]
    ELSE IF ~line.object
    THEN [response |-> NoResponse, running |-> FALSE, request |-> line]
    ELSE LET h == handle_request(line)
         IN  IF h.raised # NoExc
             THEN [response |-> Response("error", line.id, InternalError,
                                         NoPayload, h.raised),
                   running |-> TRUE, request |-> line]
             ELSE [response |-> h.response, running |-> TRUE, request |-> line]

----------------------------------------------------------------------------
(* The state after Database.__init__ on a new store file, and the inputs *)

\* _initialize_defaults: the root folder and the default tags
RootFolder == [id |-> 1, name |-> <<"R","o","o","t">>, path |-> Slash,
               parent_id |-> NoId]
default_tags ==
    << <<"claude",     "ai_tool", <<"#","7","C","3","A","E","D">> >>,
       <<"chatgpt",    "ai_tool", <<"#","1","0","B","9","8","1">> >>,
       <<"perplexity", "ai_tool", <<"#","3","B","8","2","F","6">> >>,
       <<"gemini",     "ai_tool", <<"#","F","5","9","E","0","B">> >>,
       <<"coding",     "topic",   <<"#","E","F","4","4","4","4">> >>,
       <<"writing",    "topic",   <<"#","8","B","5","C","F","6">> >>,
       <<"analysis",   "topic",   <<"#","0","6","B","6","D","4">> >> >>
DefaultTagRows ==
    {[id |-> i, name |-> default_tags[i][1], category |-> default_tags[i][2],
      color |-> default_tags[i][3]] : i \in 1..Len(default_tags)}

\* the loop of _initialize_defaults over default_tags[i..]: a default tag
\* is added when no tag has its name
RECURSIVE SeedTags(_, _)
SeedTags(T, i) ==
    IF i > Len(default_tags) THEN T
    ELSE IF \E t \in T : t.name = default_tags[i][1] THEN SeedTags(T, i + 1)
    ELSE SeedTags(T \cup {[id |-> NextId(T), name |-> default_tags[i][1],
                            category |-> default_tags[i][2],
                            color |-> default_tags[i][3]]}, i + 1)
\* Database.__init__ on a store that exists: create_all keeps the tables,
\* _initialize_defaults adds the root folder and the default tags it misses
initialize_defaults(db) ==
    LET F2 == IF \E f \in db.folders : f.path = Slash THEN db.folders
              ELSE db.folders \cup {[RootFolder EXCEPT !.id = NextId(db.folders)]}
    IN  Result([db EXCEPT !.folders = F2, !.tags = SeedTags(db.tags, 1)],
               TRUE, NoExc)

\* bounds of the model
MaxPrompts == 1
MaxFolders == 3
\* row ids grow without bound (max + 1 after a delete below the max)
MaxId == 4
WithinBounds(db) ==
    /\ Cardinality(db.folders) <= MaxFolders
    /\ \A f \in db.folders : f.id <= MaxId
    /\ \A p \in db.prompts : p.id <= MaxId
    /\ \A t \in db.tags : t.id <= Len(default_tags) + MaxId

\* folder paths as callers spell them: normalized, without the leading "/",
\* with a trailing or a doubled "/", the root, and a path of no segment
PathInputs ==
    { <<"/","A">>, <<"/","B">>, <<"/","A","/","B">>,
      <<"A">>, <<"/","A","/">>, <<"/","/","A">>, Slash, <<"/","/">> }
\* the paths a rename or a delete is asked for
OldPathInputs ==
    { <<"/","A">>, <<"/","B">>, <<"/","A","/","B">>, <<"B">>, Slash }
PlainText == [title |-> <<"t">>, content |-> <<"c">>, description |-> NoText]
\* the id a request carries
RequestIds == {1, 2}
RequestId == CHOOSE i \in RequestIds : TRUE
OtherRequestId == CHOOSE i \in RequestIds : i # RequestId

Request(src, name, arguments) ==
    [src |-> src, name |-> name, arguments |-> arguments]

Init ==
    /\ folders = {RootFolder}
    /\ prompts = {}
    /\ tags = DefaultTagRows
    /\ prompt_tags = {}
    /\ running = TRUE
    /\ req = Request("start", "", <<>>)
    /\ resp = NoResponse
    /\ parsed = Unbound

\* the store after a call
Store(db) ==
    /\ folders' = db.folders
    /\ prompts' = db.prompts
    /\ tags' = db.tags
    /\ prompt_tags' = db.prompt_tags

\* a tools/call request read by the loop and answered by handle_tools_call
ToolCall(name, arguments, r) ==
    /\ running
    /\ WithinBounds(r.db)
    /\ Store(r.db)
    /\ req' = Request("tool", name, arguments)
    /\ resp' = ToolResponse(RequestId, r)
    /\ parsed' = Line(TRUE, TRUE, "tools/call", FALSE, RequestId)
    /\ UNCHANGED running

\* a direct call of a Database method (the CLI, a library user)
DbCall(name, arguments, r) ==
    /\ WithinBounds(r.db)
    /\ Store(r.db)
    /\ req' = Request("db", name, arguments)
    /\ resp' = Response("return", NoId, 0, [error |-> FALSE, ret |-> r.ret],
                        r.raised)
    /\ UNCHANGED <<running, parsed>>

CreatePrompt(maxPrompts, texts, paths, tagLists) ==
    /\ Cardinality(prompts) < maxPrompts
    /\ \E t \in texts, p \in paths, tg \in tagLists :
          LET arguments == [title |-> t.title, content |-> t.content,
                            description |-> t.description, folder_path |-> p,
                            tags |-> tg]
          IN  ToolCall("create_prompt", arguments,
                       create_prompt_tool(DB, arguments))

DeletePrompt ==
    \E id \in 1..MaxId :
        ToolCall("delete_prompt", [prompt_id |-> id],
                 delete_prompt_tool(DB, [prompt_id |-> id]))

UpdateFolder(olds, news) ==
    \E o \in olds, n \in news :
        LET arguments == [old_path |-> o, new_path |-> n]
        IN  ToolCall("update_folder", arguments, update_folder_tool(DB, arguments))

DeleteFolder(paths) ==
    \E p \in paths :
        ToolCall("delete_folder", [folder_path |-> p],
                 delete_folder_tool(DB, [folder_path |-> p]))

CreateFolder(paths) ==
    \E p \in paths :
        ToolCall("create_folder", [folder_path |-> p],
                 create_folder_tool(DB, [folder_path |-> p]))

DbDeleteFolder(paths) ==
    \E p \in paths :
        DbCall("delete_folder", [path |-> p], delete_folder(DB, p))

\* the loop reads a line that is no tools/call request
LineInputs ==
    { Line(FALSE, FALSE, "", FALSE, NoId),
      Line(TRUE, FALSE, "", FALSE, NoId),
      Line(TRUE, TRUE, "initialize", FALSE, RequestId),
      Line(TRUE, TRUE, "initialize", TRUE, RequestId),
      Line(TRUE, TRUE, "tools/list", FALSE, RequestId),
      Line(TRUE, TRUE, "tools/call", TRUE, RequestId),
      Line(TRUE, TRUE, "tools/call", FALSE, RequestId),
      Line(TRUE, TRUE, "notifications/initialized", FALSE, NoId),
      Line(TRUE, TRUE, "notifications/cancelled", FALSE, NoId),
      Line(TRUE, TRUE, "no/such/method", FALSE, RequestId),
      Line(TRUE, TRUE, "tools/list", FALSE, OtherRequestId),
      Line(TRUE, TRUE, "", FALSE, OtherRequestId),
      DeepLine }
ReadLine ==
    /\ running
    /\ \E line \in LineInputs :
          /\ req' = Request("line", line.method, line)
          /\ resp' = run_iteration(line, parsed).response
          /\ running' = run_iteration(line, parsed).running
          /\ parsed' = run_iteration(line, parsed).request
    /\ UNCHANGED <<folders, prompts, tags, prompt_tags>>

\* readline returns "": the loop ends
ReadEof ==
    /\ running
    /\ running' = FALSE
    /\ req' = Request("eof", "", <<>>)
    /\ resp' = NoResponse
    /\ UNCHANGED <<folders, prompts, tags, prompt_tags, parsed>>

DbCreateTag(names, categories, colors) ==
    \E n \in names, c \in categories, col \in colors :
        DbCall("create_tag", [name |-> n, category |-> c, color |-> col],
               create_tag(DB, n, c, col))

CreateTag(names, categories, colors) ==
    \E n \in names, c \in categories, col \in colors :
        LET arguments == [name |-> n, category |-> c, color |-> col]
        IN  ToolCall("create_tag", arguments, create_tag_tool(DB, arguments))

SearchPrompts(queries, paths, tagLists, limits) ==
    \E q \in queries, p \in paths, tg \in tagLists, l \in limits :
        LET arguments == [query |-> q, folder_path |-> p, tags |-> tg,
                          limit |-> l]
        IN  ToolCall("search_prompts", arguments,
                     search_prompts_tool(DB, arguments))

UsePromptTemplate(variableInputs) ==
    \E id \in 1..MaxId, v \in variableInputs :
        LET arguments == [prompt_id |-> id, variables |-> v]
        IN  ToolCall("use_prompt_template", arguments,
                     use_prompt_template_tool(DB, arguments))

FindAndUsePrompt(queries, variableInputs) ==
    \E q \in queries, v \in variableInputs :
        LET arguments == [query |-> q, variables |-> v]
        IN  ToolCall("find_and_use_prompt", arguments,
                     find_and_use_prompt_tool(DB, arguments))

----------------------------------------------------------------------------
(* Spec: the catalogue under folder and prompt requests *)

Next ==
    \/ CreatePrompt(MaxPrompts, {PlainText}, PathInputs \cup {NoText}, {<<>>})
    \/ DeletePrompt
    \/ UpdateFolder(OldPathInputs, PathInputs)
    \/ DeleteFolder(OldPathInputs)
    \/ CreateFolder(PathInputs)
    \/ DbDeleteFolder(OldPathInputs)

Spec == Init /\ [][Next]_vars

----------------------------------------------------------------------------
(* SpecRun: the read loop of the dispatcher *)

EmptyTitleText == [title |-> <<>>, content |-> <<"c">>, description |-> NoText]
\* a text of n copies of the character c
RECURSIVE Repeated(_, _)
Repeated(c, n) ==
    IF n = 0 THEN <<>>
    ELSE IF n % 2 = 1 THEN Append(Repeated(c, n - 1), c)
    ELSE LET half == Repeated(c, n \div 2) IN half \o half
LongTitleText ==
    [title |-> Repeated("x", MaxTitleLen + 1), content |-> <<"c">>,
     description |-> NoText]
EmptyContentText == [title |-> <<"t">>, content |-> <<>>, description |-> NoText]
RunTextInputs == {PlainText, EmptyTitleText, LongTitleText, EmptyContentText}
RunPathInputs == {NoText, <<"/","A">>, <<"A">>, <<"/","B">>, <<"/","/">>}

NextRun ==
    \/ ReadLine
    \/ ReadEof
    \/ CreatePrompt(MaxPrompts, RunTextInputs, RunPathInputs, {<<>>, <<"fresh">>})
    \/ DeletePrompt
    \/ DeleteFolder(RunPathInputs \ {NoText})

SpecRun == Init /\ [][NextRun]_vars

----------------------------------------------------------------------------
(* SpecTags: tags and search *)

MaxTagPrompts == 2
SearchTexts ==
    { [title |-> <<"a">>, content |-> <<"c">>, description |-> NoText],
      [title |-> <<"t">>, content |-> <<"A","b">>, description |-> NoText],
      [title |-> <<"t">>, content |-> <<"c">>, description |-> <<"a","_">>] }
TagListInputs == { <<>>, <<"coding">>, <<"coding","writing">> }
TagNameInputs == {"coding", "new"}
ColorInputs == { <<"#","0","0","0","0","0","0">>, <<"r","e","d">> }
QueryInputs == { <<"a">>, <<"A","B">>, <<"_">>, <<"%">>, <<"z">> }
SearchTagInputs ==
    { <<>>, <<"coding">>, <<"coding","writing">>, <<"nosuch">>,
      <<"coding","nosuch","writing">> }
LimitInputs == {1, ToolDefaultLimit}

NextTags ==
    \/ CreatePrompt(MaxTagPrompts, SearchTexts, {NoText}, TagListInputs)
    \/ CreateTag(TagNameInputs, {NoCategory}, ColorInputs)
    \/ DbCreateTag(TagNameInputs, {NoCategory}, ColorInputs)
    \/ SearchPrompts(QueryInputs, {NoText}, {<<>>}, LimitInputs)
    \/ SearchPrompts({NoText, <<"a">>}, {NoText}, SearchTagInputs,
                     {ToolDefaultLimit})

SpecTags == Init /\ [][NextTags]_vars

----------------------------------------------------------------------------
(* SpecSubst: prompts used as templates *)

MaxTemplates == 2
TemplateTexts ==
    { [title |-> <<"h">>, description |-> NoText,
       content |-> <<"H","e","l","l","o"," ","{","n","a","m","e","}",","," ",
                     "{","{","n","a","m","e","}","}"," ","a","g","a","i","n">>],
      [title |-> <<"s">>, description |-> NoText, content |-> <<"{","n","}">>],
      [title |-> <<"d">>, description |-> NoText,
       content |-> <<"{","{","n","}","}">>],
      [title |-> <<"p">>, description |-> NoText, content |-> <<"n"," ","x">>] }
VariableInputs ==
    { <<>>,
      << <<<<"n","a","m","e">>, <<"W","o","r","l","d">>>> >>,
      << <<<<"n">>, <<"v">>>> >>,
      << <<<<"n">>, <<"v">>>>, <<<<"n","a","m","e">>, <<"W","o","r","l","d">>>> >> }
TemplateQueries == { <<>>, <<"h">>, <<"n">>, <<"z">> }

NextSubst ==
    \/ CreatePrompt(MaxTemplates, TemplateTexts, {NoText}, {<<>>})
    \/ DeletePrompt
    \/ UsePromptTemplate(VariableInputs)
    \/ FindAndUsePrompt(TemplateQueries, VariableInputs)

SpecSubst == Init /\ [][NextSubst]_vars

----------------------------------------------------------------------------
(* SpecOpen: the store reopened by a new Database(db_path) *)

\* the update that names no field
NoUpdate ==
    [prompt_id |-> NoId, title |-> NoText, content |-> NoText,
     description |-> NoText, folder_path |-> NoText, tags |-> NoTags]

UpdatePrompt(ids, updates) ==
    \E id \in ids, u \in updates :
        LET arguments == [u EXCEPT !.prompt_id = id]
        IN  ToolCall("update_prompt", arguments, update_prompt_tool(DB, arguments))

DbUpdatePrompt(ids, updates) ==
    \E id \in ids, u \in updates :
        LET arguments == [u EXCEPT !.prompt_id = id]
        IN  DbCall("update_prompt", arguments, update_prompt(DB, id, arguments))

DeleteTag(names) ==
    \E n \in names :
        ToolCall("delete_tag", [name |-> n], delete_tag_tool(DB, [name |-> n]))

\* a new Database on the same file: a CLI invocation, a server start
Reopen == DbCall("open", <<>>, initialize_defaults(DB))

UpdateTag(currents, names, colors) ==
    \E c \in currents, n \in names, col \in colors :
        LET arguments == [current_name |-> c, new_name |-> n,
                          category |-> AbsentName, color |-> col]
        IN  ToolCall("update_tag", arguments, update_tag_tool(DB, arguments))

DeleteTagInputs == {"coding", "analysis", "nosuch"}

NextOpen ==
    \/ Reopen
    \/ DeleteTag(DeleteTagInputs)
    \/ UpdateTag({"coding"}, {AbsentName, "new"},
                 {AbsentColor, <<"r","e","d">>})
    \/ DbDeleteFolder({Slash})
    \/ CreatePrompt(MaxPrompts, {PlainText}, {NoText},
                    {<<>>, <<"coding">>, <<"Coding","coding">>})
    \/ UpdatePrompt({1}, {[NoUpdate EXCEPT !.tags = <<"coding","fresh">>]})

SpecOpen == Init /\ [][NextOpen]_vars

----------------------------------------------------------------------------
(* SpecEdit: prompts edited by partial updates *)

UpdateInputs ==
    { NoUpdate,
      [NoUpdate EXCEPT !.tags = <<>>],
      [NoUpdate EXCEPT !.tags = <<"writing">>],
      [NoUpdate EXCEPT !.tags = <<"new">>],
      [NoUpdate EXCEPT !.title = <<"u">>],
      [NoUpdate EXCEPT !.title = <<>>],
      [NoUpdate EXCEPT !.description = <<"d">>],
      [NoUpdate EXCEPT !.folder_path = <<>>],
      [NoUpdate EXCEPT !.folder_path = <<"/","B">>],
      [NoUpdate EXCEPT !.folder_path = Slash],
      [NoUpdate EXCEPT !.content = <<"k">>, !.tags = <<"coding">>] }

NextEdit ==
    \/ CreatePrompt(MaxTagPrompts, {PlainText}, {NoText, <<"/","A">>},
                    {<<>>, <<"coding">>})
    \/ UpdatePrompt({1}, UpdateInputs)
    \/ DbUpdatePrompt({1}, UpdateInputs)
    \/ DbCreateTag({"new"}, {NoCategory}, {<<"r","e","d">>})

SpecEdit == Init /\ [][NextEdit]_vars

----------------------------------------------------------------------------
(* SpecFolders: the folder tree listed by parent *)

DbCreateFolder(inputs) ==
    \E i \in inputs :
        DbCall("create_folder", i,
               create_folder(DB, i.name, i.path, i.parent_path))

DbListFolders(paths) ==
    \E p \in paths :
        DbCall("list_folders", [parent_path |-> p], list_folders(DB, p))

CreateFolderInputs ==
    { [name |-> <<"A">>, path |-> <<"/","A">>, parent_path |-> Slash],
      [name |-> <<"B">>, path |-> <<"/","A","/","B">>,
        parent_path |-> <<"/","A">>] }
ListPathInputs == { Slash, <<"/","A">>, <<"/","B">> }

NextFolders ==
    \/ CreatePrompt(MaxPrompts, {PlainText},
                    {NoText, <<"/","A">>, <<"/","A","/","B">>}, {<<>>})
    \/ DeletePrompt
    \/ DbCreateFolder(CreateFolderInputs)
    \/ DbDeleteFolder({<<"/","A">>})
    \/ DbListFolders(ListPathInputs)

SpecFolders == Init /\ [][NextFolders]_vars

----------------------------------------------------------------------------
(* SpecPages: searches read page by page *)

DbSearchPrompts(queries, paths, tagLists, offsets, limits) ==
    \E q \in queries, p \in paths, tg \in tagLists,
       o \in offsets, l \in limits :
        LET sp == [SearchParams(q, p, tg, l) EXCEPT !.offset = o]
        IN  DbCall("search_prompts", sp, search_prompts(DB, sp))

OffsetInputs == {0, 1}
PageLimitInputs == {1, 2}

NextPages ==
    \/ CreatePrompt(MaxTagPrompts, {PlainText}, {NoText, <<"/","A">>},
                    {<<>>, <<"coding">>})
    \/ DbUpdatePrompt({1}, {[NoUpdate EXCEPT !.tags = <<"coding">>],
                            [NoUpdate EXCEPT !.tags = <<>>]})
    \/ DbSearchPrompts({NoText, <<"t">>},
                       {NoText, <<>>, <<"/","A">>, <<"/","B">>},
                       {NoTags, <<"coding">>}, OffsetInputs, PageLimitInputs)

SpecPages == Init /\ [][NextPages]_vars

----------------------------------------------------------------------------
(* SpecAbsent: tools called for prompts, folders and tags that may be gone *)

GetPrompt(ids) ==
    \E id \in ids :
        ToolCall("get_prompt", [prompt_id |-> id],
                 get_prompt_tool(DB, [prompt_id |-> id]))

PromptIdInputs == {1, 2}
AbsentPathInputs == { <<"/","A">>, <<"B">> }
AbsentTagInputs == {"coding", "nosuch"}

NextAbsent ==
    \/ CreatePrompt(MaxPrompts, {PlainText}, {NoText, <<"/","A">>},
                    {<<>>, <<"coding">>})
    \/ GetPrompt(PromptIdInputs)
    \/ UsePromptTemplate({<<>>})
    \/ UpdatePrompt(PromptIdInputs, {[NoUpdate EXCEPT !.title = <<"u">>]})
    \/ DeletePrompt
    \/ DeleteFolder(AbsentPathInputs)
    \/ UpdateFolder(AbsentPathInputs, {<<"/","C">>})
    \/ UpdateTag(AbsentTagInputs, {"new"}, {AbsentColor})
    \/ DeleteTag(AbsentTagInputs)

SpecAbsent == Init /\ [][NextAbsent]_vars

----------------------------------------------------------------------------
(* SpecResources: the prompts listed and read as resources *)

\* a resources/list or resources/read request read by the loop and answered
\* by handle_request
ResourceCall(method, params, response) ==
    /\ running
    /\ req' = Request("resource", method, params)
    /\ resp' = response
    /\ parsed' = Line(TRUE, TRUE, method, FALSE, RequestId)
    /\ UNCHANGED <<folders, prompts, tags, prompt_tags, running>>

ResourcesList ==
    ResourceCall("resources/list", <<>>, handle_resources_list(DB, RequestId))

ResourcesRead(uris) ==
    \E u \in uris :
        ResourceCall("resources/read", [uri |-> u],
                     handle_resources_read(DB, RequestId, u))

DbDeletePrompt(ids) ==
    \E id \in ids :
        DbCall("delete_prompt", [prompt_id |-> id], delete_prompt(DB, id))

UriInputs ==
    { PromptUri(1), PromptUri(2), NoText, <<"p","r","o","m","p","t",":","/","/","1">>,
      UriPrefix \o <<"x">> }
DescribedText == [title |-> <<"T">>, content |-> <<"k","\n">>,
                  description |-> <<"d">>]

NextResources ==
    \/ CreatePrompt(MaxTagPrompts, {PlainText, DescribedText},
                    {NoText, <<"/","A">>}, {<<>>, <<"coding","new">>})
    \/ DeletePrompt
    \/ DbDeletePrompt(PromptIdInputs)
    \/ DbCreateTag({"new"}, {NoCategory}, {<<"r","e","d">>})
    \/ ResourcesList
    \/ ResourcesRead(UriInputs)

SpecResources == Init /\ [][NextResources]_vars

----------------------------------------------------------------------------
(* SpecPaths: folders made by filing prompts and by Database.create_folder *)

\* path spellings of a filing request: 'A/B' and '/A//B/'
SpelledPathInputs == { <<"A","/","B">>, <<"/","A","/","/","B","/">> }
\* Database.create_folder stores name, path and the parent it is given
StoredFolderInputs ==
    { [name |-> <<"A">>, path |-> <<"/","A">>, parent_path |-> Slash],
      [name |-> <<"A">>, path |-> <<"A","/">>, parent_path |-> NoText],
      [name |-> <<"X">>, path |-> <<"/","X">>,
        parent_path |-> <<"/","A","/","B">>] }

NextPaths ==
    \/ CreatePrompt(MaxPrompts, {PlainText}, SpelledPathInputs, {<<>>})
    \/ DeletePrompt
    \/ DbCreateFolder(StoredFolderInputs)
    \/ DbDeleteFolder({<<"/","A">>, <<"/","A","/","B">>})

SpecPaths == Init /\ [][NextPaths]_vars

----------------------------------------------------------------------------
(* SpecRename: a folder renamed beside a sibling folder *)

\* the folder /A, its sibling /AX, and no folder
SiblingPathInputs == { NoText, <<"/","A">>, <<"/","A","X">> }
\* a new path, and the sibling spelled with a trailing "/"
RenameTargetInputs == { <<"/","C">>, <<"/","A","X","/">> }

NextRename ==
    \/ CreatePrompt(MaxTagPrompts, {PlainText}, SiblingPathInputs,
                    {<<>>, <<"coding">>})
    \/ DeletePrompt
    \/ UpdateFolder({<<"/","A">>, <<"/","A","X">>}, RenameTargetInputs)

SpecRename == Init /\ [][NextRename]_vars

----------------------------------------------------------------------------
(* SpecRoot: prompts filed at the root, with and without a folder path *)

NextRoot ==
    \/ CreatePrompt(MaxTagPrompts, {PlainText}, {NoText, Slash}, {<<>>})
    \/ DeletePrompt
    \/ DbSearchPrompts({NoText}, {NoText, Slash}, {NoTags}, {0}, {DefaultLimit})
    \/ DbListFolders({NoText, Slash})

SpecRoot == Init /\ [][NextRoot]_vars

----------------------------------------------------------------------------
(* SpecIntegrity: folders, prompts and tags deleted while they are referred to *)

NextIntegrity ==
    \/ CreatePrompt(MaxPrompts, {PlainText},
                    {<<"/","A">>, <<"/","A","/","B">>}, {<<>>, <<"coding">>})
    \/ DeletePrompt
    \/ DeleteFolder({<<"/","A">>})
    \/ DbDeleteFolder({<<"/","A">>, <<"/","A","/","B">>})
    \/ DeleteTag({"coding"})

SpecIntegrity == Init /\ [][NextIntegrity]_vars

----------------------------------------------------------------------------
(* Properties *)

\* the path with its segments joined by single "/" ("/" for no segment)
RECURSIVE JoinParts(_)
JoinParts(parts) ==
    IF parts = <<>> THEN <<>> ELSE Slash \o Head(parts) \o JoinParts(Tail(parts))
Normalized(path) == IF Parts(path) = <<>> THEN Slash ELSE JoinParts(Parts(path))
\* the proper ancestors of a path, the root left out
AncestorPaths(path) ==
    {JoinParts(SubSeq(Parts(path), 1, k)) : k \in 1..(Len(Parts(path)) - 1)}
InSubtreeOf(path, top) == path = top \/ StartsWith(path, top \o Slash)

ToolSucceeded(name) ==
    /\ req.src = "tool" /\ req.name = name
    /\ resp.kind = "result" /\ ~resp.payload.error

\* C1: an accepted update_folder(oldPath, newPath) leaves no folder at or
\* below oldPath, has a folder at newPath + s for every folder that was at
\* oldPath + s, and files every prompt of oldPath + s in newPath + s.
C1_RenameMovesSubtree ==
    [][ToolSucceeded("update_folder")' =>
        LET old  == WithLeadingSlash(req'.arguments.old_path)
            new  == WithLeadingSlash(req'.arguments.new_path)
            sub  == {f \in folders : InSubtreeOf(f.path, old)}
            To(f) == Normalized(RenamedPath(f.path, old, new))
        IN  /\ \A g \in folders' : ~InSubtreeOf(g.path, old)
            /\ \A f \in sub : \E g \in folders' : g.path = To(f)
            /\ \A f \in sub : \A p \in prompts : p.folder_id = f.id =>
                  \E q \in prompts' :
                      /\ q.id = p.id
                      /\ \E g \in folders' : g.id = q.folder_id /\ g.path = To(f)
       ]_vars

\* C3: the read loop goes on after every line that is not end of input.
C3_LoopSurvivesEveryLine ==
    [][(running /\ req'.src # "eof") => running']_vars

\* C4: the root folder "/" exists in every reachable state.
C4_RootAlwaysExists == \E f \in folders : f.path = Slash

\* C5: every folder other than the root has an existing parent folder, and
\* its path is the parent's path, "/", and its own name.
C5_FolderUnderParent ==
    \A f \in folders : f.path # Slash =>
        \E parent \in folders :
            /\ parent.id = f.parent_id
            /\ f.path = (IF parent.path = Slash THEN <<>> ELSE parent.path)
                        \o Slash \o f.name

\* C6: after create_prompt files a prompt under p, get_folder_by_path(p)
\* returns a folder whose path is p, and every ancestor of p is a folder.
C6_FiledFolderIsFound ==
    (ToolSucceeded("create_prompt") /\ Truthy(req.arguments.folder_path)) =>
        LET p == req.arguments.folder_path
        IN  /\ get_folder_by_path(DB, p).ret # NoRow
            /\ get_folder_by_path(DB, p).ret.path = p
            /\ \A a \in AncestorPaths(p) : get_folder_by_path(DB, a).ret # NoRow

\* the path a delete_folder call is about: Database.delete_folder called
\* directly, or through the delete_folder tool when it reports success
IsDeleteFolder ==
    \/ req.src = "db" /\ req.name = "delete_folder"
    \/ ToolSucceeded("delete_folder")
DeletedPath ==
    IF req.src = "db" THEN req.arguments.path
    ELSE WithLeadingSlash(req.arguments.folder_path)
ReturnedTrue == IF req.src = "db" THEN resp.payload.ret = TRUE ELSE TRUE

\* C7: delete_folder(p) on an existing folder returns true, moves every
\* prompt directly inside p to p's parent_id, removes p's row, and
\* list_folders does not include p afterwards; with no folder at p it
\* returns false.
C7_DeleteFolderReparents ==
    [][IsDeleteFolder' =>
        LET p    == DeletedPath'
            rows == {f \in folders : f.path = p}
            f    == TheRow(rows)
            listed == list_folders(DB', NoText).ret
        IN  IF rows = {}
            THEN resp'.payload.ret = FALSE
            ELSE /\ ReturnedTrue'
                 /\ \A q \in prompts : q.folder_id = f.id =>
                        \E q2 \in prompts' :
                            q2.id = q.id /\ q2.folder_id = f.parent_id
                 /\ \A g \in folders' : g.path # p
                 /\ \A i \in 1..Len(listed) : listed[i].path # p
       ]_vars
\* a nested folder that held a prompt was deleted: the prompt is now in the
\* folder's parent
C7_Witness ==
    /\ ToolSucceeded("delete_folder")
    /\ resp.payload.moved >= 1
    /\ Len(Parts(resp.payload.folder_path)) = 2
    /\ \E q \in prompts : \E g \in folders :
          g.id = q.folder_id /\ g.path \in AncestorPaths(resp.payload.folder_path)

\* every "{{key}}" and every "{key}" of the content replaced by the value,
\* for each <<key, value>> pair in turn
RECURSIVE Filled(_, _)
Filled(content, variables) ==
    IF variables = <<>> THEN content
    ELSE LET key    == Head(variables)[1]
             value  == Head(variables)[2]
             double == Replace(content, <<"{","{">> \o key \o <<"}","}">>, value)
             single == Replace(double, <<"{">> \o key \o <<"}">>, value)
         IN  Filled(single, Tail(variables))

\* C2: use_prompt_template and find_and_use_prompt replace every occurrence
\* of a supplied name in single braces and in double braces by its value,
\* leaving no brace of a replaced placeholder behind.
C2_PlaceholdersFilled ==
    (ToolSucceeded("use_prompt_template") \/ ToolSucceeded("find_and_use_prompt"))
        => resp.payload.prompt_content
               = Filled(resp.payload.original_content, req.arguments.variables)

\* text contains part as a run of consecutive characters, letter case aside
Contains(text, part) ==
    \E i \in 0..(Len(text) - Len(part)) :
        \A j \in 1..Len(part) : Lower(text[i + j]) = Lower(part[j])
HasSubstring(p, q) ==
    \/ Contains(p.title, q)
    \/ Contains(p.content, q)
    \/ (p.description # NoText /\ Contains(p.description, q))
IsSearch == req.src = "tool" /\ req.name = "search_prompts"
Returned == {resp.payload.prompts[i] : i \in 1..Len(resp.payload.prompts)}

\* C8: a search by query alone that answers returns exactly the prompts
\* whose title, content or description contains the query as a literal
\* substring, letter case aside (as many of them as the limit allows), and
\* its total is the number of those prompts.
C8_QueryIsLiteralSubstring ==
    (ToolSucceeded("search_prompts") /\ Truthy(req.arguments.query)
        /\ req.arguments.tags = <<>> /\ req.arguments.folder_path = NoText) =>
        LET matching == {p \in prompts : HasSubstring(p, req.arguments.query)}
        IN  /\ Returned \subseteq matching
            /\ resp.payload.total = Cardinality(matching)
            /\ (req.arguments.limit >= Cardinality(matching)
                    => Returned = matching)
            /\ (req.arguments.limit < Cardinality(matching)
                    => resp.payload.count = req.arguments.limit)

\* the listed tag names the store has a tag for
KnownTags(names) == {t \in tags : \E i \in 1..Len(names) : t.name = names[i]}
Without(names, i) == SubSeq(names, 1, i - 1) \o SubSeq(names, i + 1, Len(names))
QueryMatches(p, q) ==
    ~Truthy(q) \/ ILike(p.title, <<"%">> \o q \o <<"%">>)
               \/ ILike(p.content, <<"%">> \o q \o <<"%">>)
               \/ ILike(p.description, <<"%">> \o q \o <<"%">>)

\* C9: a search with a tag list returns a prompt only if it carries every
\* listed tag that exists, its total counts the prompts that carry them all,
\* and a listed name with no tag changes nothing: the answer is the answer
\* of the same search without that name.
C9_TagListIsAndFilter ==
    IsSearch =>
        LET names == req.arguments.tags
            carrying == {p \in prompts :
                            /\ QueryMatches(p, req.arguments.query)
                            /\ \A t \in KnownTags(names) :
                                   Linked(prompt_tags, p.id, t.id)}
        IN  /\ resp.kind = "result" =>
                  /\ Returned \subseteq carrying
                  /\ resp.payload.total = Cardinality(carrying)
            /\ \A i \in 1..Len(names) :
                  (\A t \in tags : t.name # names[i]) =>
                      resp = ToolResponse(RequestId,
                                search_prompts_tool(DB,
                                    [req.arguments EXCEPT !.tags = Without(names, i)]))
\* a search for two existing tags and an unknown name returned a prompt and
\* left out a prompt that carries only one of the two
C9_Witness ==
    /\ ToolSucceeded("search_prompts")
    /\ req.arguments.tags = <<"coding","nosuch","writing">>
    /\ resp.payload.count >= 1
    /\ \E p \in prompts \ Returned :
          /\ QueryMatches(p, req.arguments.query)
          /\ \E t \in tags : t.name = "coding" /\ Linked(prompt_tags, p.id, t.id)

IsCreateTag == req.name = "create_tag"
\* C10: creating a tag under a name that exists returns the existing tag
\* with its id, category and color, reports success, and adds no tag; for
\* Database.create_tag and for the create_tag tool.
C10_CreateTagIdempotent ==
    [][(IsCreateTag' /\ \E t \in tags : t.name = req'.arguments.name) =>
        LET existing == TheRow({t \in tags : t.name = req'.arguments.name})
        IN  /\ tags' = tags
            /\ IF req'.src = "db"
               THEN resp'.data = NoExc /\ resp'.payload.ret = existing
               ELSE /\ resp'.kind = "result" /\ ~resp'.payload.error
                    /\ resp'.payload.tag = existing
       ]_vars

TagNamesOf(db, pid) == {t.name : t \in TagsOf(db, pid)}
Names(list) == {list[i] : i \in 1..Len(list)}

\* C11: after create_prompt(title, content, folder_path = p, tags = T),
\* get_prompt(id) returns the same title and content, folder_path p and
\* exactly the tags named in T; after delete_prompt(id), a search by the
\* prompt's folder path is empty with total 0 when no other prompt is filed
\* there, and the folder stays.
C11_CreateGetDeleteRoundTrip ==
    [][/\ ToolSucceeded("create_prompt")' =>
            LET got == get_prompt(DB', resp'.payload.id)
            IN  /\ got.raised = NoExc /\ got.ret # NoRow
                /\ got.ret.title = req'.arguments.title
                /\ got.ret.content = req'.arguments.content
                /\ FolderPathOf(DB', got.ret) = req'.arguments.folder_path
                /\ TagNamesOf(DB', got.ret.id) = Names(req'.arguments.tags)
       /\ ToolSucceeded("delete_prompt")' =>
            \A q \in prompts : \A f \in folders :
                (/\ q.id = req'.arguments.prompt_id /\ q.folder_id = f.id
                 /\ \A o \in prompts : o.folder_id = f.id => o = q) =>
                    /\ f \in folders'
                    /\ search_prompts(DB', SearchParams(NoText, f.path, <<>>,
                                                        DefaultLimit))
                         = Result(DB', [prompts |-> <<>>, total |-> 0], NoExc)
      ]_vars

DefaultTagNames == {default_tags[i][1] : i \in 1..Len(default_tags)}
IsReopen == req.src = "db" /\ req.name = "open"

\* C12: the default tags are seeded once, when the store is created: a
\* default tag that is gone before the store is reopened is still gone
\* after it.
C12_DefaultTagsSeededOnce ==
    [][IsReopen' =>
        \A n \in DefaultTagNames :
            (\A t \in tags : t.name # n) => (\A t \in tags' : t.name # n)
      ]_vars

\* the last step read a line (a tools/call request included)
LineRead == req.src \in {"line", "tool"}
IsNotification ==
    /\ req.src = "line" /\ req.arguments.json /\ req.arguments.object
    /\ req.name \in Notifications
Responded == resp.kind # "none"

\* C13: every line the dispatcher reads is answered by one response, except
\* the two notification methods, which are answered by none.
C13_OneResponsePerLine ==
    LineRead => (Responded <=> ~IsNotification)

\* the correlation id of the line read last (none for a line that is no
\* JSON at all)
OwnId == IF req.src = "tool" THEN RequestId ELSE req.arguments.id

\* C14: requests are processed one at a time, each response written before
\* the next line is read, and each response carries the correlation id of
\* its own request.
C14_ResponseCarriesOwnId ==
    (LineRead /\ Responded) => resp.id = OwnId

\* the handler of the last tools/call request raised: the exception left
\* the handler, or the handler caught it and returned its "Failed to ..."
\* payload
HandlerRaised ==
    /\ req.src = "tool"
    /\ \/ resp.data # NoExc
       \/ /\ resp.kind = "result" /\ resp.payload.error
          /\ resp.payload.message \in
                {"Failed to rename folder", "Failed to update tag"}

\* C15: a failure while a tools/call request is processed is answered by an
\* error response with code -32603 and the error as data, never by a
\* result, and the loop goes on.
C15_FailureIsInternalError ==
    HandlerRaised =>
        /\ resp.kind = "error" /\ resp.code = InternalError
        /\ resp.data # NoExc
        /\ running

RecognisedMethods ==
    {"initialize", "resources/list", "resources/read", "tools/list", "tools/call"}
        \cup Notifications
UnknownMethod ==
    /\ req.src = "line" /\ req.arguments.json /\ req.arguments.object
    /\ req.name \notin RecognisedMethods

\* C16: a request whose method is not a recognised one is answered by the
\* error -32601 with the request's id, changes nothing in the catalogue and
\* raises nothing: the loop goes on.
C16_UnknownMethodNotFound ==
    [][UnknownMethod' =>
        /\ resp'.kind = "error" /\ resp'.code = MethodNotFound
        /\ resp'.id = req'.arguments.id
        /\ resp'.data = NoExc
        /\ running'
        /\ UNCHANGED <<folders, prompts, tags, prompt_tags>>
      ]_vars
\* an unknown method was answered while the catalogue held a prompt
C16_Witness ==
    /\ UnknownMethod /\ req.name = "no/such/method"
    /\ resp.code = MethodNotFound /\ resp.id = RequestId
    /\ prompts # {}

IsUpdatePrompt == req.name = "update_prompt"
\* the update went through: the tool answered with the prompt, or
\* Database.update_prompt returned it
UpdateApplied ==
    /\ IsUpdatePrompt
    /\ \/ ToolSucceeded("update_prompt")
       \/ req.src = "db" /\ resp.data = NoExc /\ resp.payload.ret # NoId
TagPairsOf(pt, pid) == {<<a[1], a[2]>> : a \in {b \in pt : b[1] = pid}}

\* C17: an update_prompt with tags present leaves the prompt with exactly
\* the named tags (none for an empty list), whatever tags it had; with tags
\* omitted the prompt's tags are unchanged.
C17_TagsReplacedNotMerged ==
    [][UpdateApplied' =>
        LET id == req'.arguments.prompt_id
            T  == req'.arguments.tags
        IN  IF T = NoTags
            THEN TagPairsOf(prompt_tags', id) = TagPairsOf(prompt_tags, id)
            ELSE /\ TagNamesOf(DB', id) = Names(T)
                 /\ Cardinality(TagPairsOf(prompt_tags', id)) = Cardinality(Names(T))
      ]_vars
\* prompt 1 was given the one tag "writing" while another prompt carries
\* "coding"
C17_Witness ==
    /\ ToolSucceeded("update_prompt")
    /\ req.arguments.tags = <<"writing">>
    /\ TagNamesOf(DB, req.arguments.prompt_id) = {"writing"}
    /\ \E p \in prompts : p.id # req.arguments.prompt_id
                          /\ TagNamesOf(DB, p.id) = {"coding"}

\* C18: update_prompt changes the fields the update names and no other: an
\* absent title, content, description, folder or tag list keeps its value,
\* the other prompts are unchanged, a present folder_path files the prompt
\* in the folder of that path, and an empty folder_path in no folder.
C18_OnlyPresentFieldsApplied ==
    [][UpdateApplied' =>
        LET a   == req'.arguments
            old == TheRow({p \in prompts : p.id = a.prompt_id})
            new == TheRow({p \in prompts' : p.id = a.prompt_id})
        IN  /\ new.title = (IF a.title = NoText THEN old.title ELSE a.title)
            /\ new.content = (IF a.content = NoText THEN old.content ELSE a.content)
            /\ new.description = (IF a.description = NoText THEN old.description
                                  ELSE a.description)
            /\ a.folder_path = NoText => new.folder_id = old.folder_id
            /\ a.folder_path = <<>> => new.folder_id = NoId
            /\ Truthy(a.folder_path) =>
                  \E f \in folders' : /\ f.id = new.folder_id
                                      /\ f.path = Normalized(a.folder_path)
            /\ a.tags = NoTags =>
                  TagPairsOf(prompt_tags', a.prompt_id)
                      = TagPairsOf(prompt_tags, a.prompt_id)
            /\ \A p \in prompts : p.id # a.prompt_id =>
                  /\ p \in prompts'
                  /\ TagPairsOf(prompt_tags', p.id) = TagPairsOf(prompt_tags, p.id)
            /\ Cardinality(prompts') = Cardinality(prompts)
      ]_vars
\* prompt 1, with a description and the tag "coding", was moved out of its
\* folder by an empty folder_path, next to a prompt filed in /A
C18_Witness ==
    /\ ToolSucceeded("update_prompt")
    /\ req.arguments.folder_path = <<>> /\ req.arguments.tags = NoTags
    /\ \E p \in prompts :
          /\ p.id = req.arguments.prompt_id /\ p.folder_id = NoId
          /\ p.description = <<"d">>
          /\ TagNamesOf(DB, p.id) = {"coding"}
    /\ \E p \in prompts : p.id # req.arguments.prompt_id /\ p.folder_id # NoId

\* the arguments of the create_prompt request break a constraint of
\* PromptCreate
BadPromptArguments ==
    /\ req.src = "tool" /\ req.name = "create_prompt"
    /\ \/ Len(req.arguments.title) = 0
       \/ Len(req.arguments.title) > 200
       \/ Len(req.arguments.content) = 0

\* C19: create_prompt with an empty title, a title longer than 200
\* characters or an empty content fails with a validation error and creates
\* no prompt, no folder and no tag.
C19_InvalidPromptRejected ==
    [][BadPromptArguments' =>
        /\ resp'.kind = "error" /\ resp'.data = "ValidationError"
        /\ UNCHANGED <<folders, prompts, tags, prompt_tags>>
      ]_vars
\* a prompt with a title of 201 characters, a folder path and a tag name
\* that are both new was refused
C19_Witness ==
    /\ BadPromptArguments /\ Len(req.arguments.title) = 201
    /\ resp.kind = "error"
    /\ req.arguments.folder_path = <<"/","B">>
    /\ req.arguments.tags = <<"fresh">>
    /\ \A f \in folders : f.path # <<"/","B">>
    /\ \A t \in tags : t.name # "fresh"

\* C20: update_folder(oldPath, newPath) is refused, and the catalogue left
\* as it was, when oldPath is "/", when newPath denotes a folder that exists
\* (however the path is spelled), or when newPath starts with oldPath + "/".
C20_RenameRefused ==
    [][(/\ req'.src = "tool" /\ req'.name = "update_folder"
        /\ LET old == WithLeadingSlash(req'.arguments.old_path)
               new == WithLeadingSlash(req'.arguments.new_path)
           IN  \/ old = Slash
               \/ \E f \in folders : f.path = Normalized(new)
               \/ StartsWith(new, old \o Slash))
       => /\ ~ToolSucceeded("update_folder")'
          /\ UNCHANGED <<folders, prompts, tags, prompt_tags>>
      ]_vars

\* "#" and six hexadecimal digits
IsHexColor(c) ==
    /\ Len(c) = 7 /\ c[1] = "#"
    /\ \A i \in 2..7 : c[i] \in {"0","1","2","3","4","5","6","7","8","9",
                                 "a","b","c","d","e","f",
                                 "A","B","C","D","E","F"}

\* C21: every stored tag has no color or a color of the form #RRGGBB: a
\* create_tag or update_tag with another color stores nothing.
C21_StoredColorsAreHex ==
    \A t \in tags : t.color = NoText \/ IsHexColor(t.color)

TagNamesUnique == \A t \in tags : \A u \in tags : t.name = u.name => t = u
\* the call stored a prompt with the tag list of its arguments
StoredTagList ==
    \/ ToolSucceeded("create_prompt")
    \/ UpdateApplied /\ req.arguments.tags # NoTags
StoredPromptId ==
    IF req.name = "create_prompt" THEN resp.payload.id
    ELSE req.arguments.prompt_id

\* C22: no two tags have the same name; create_prompt and update_prompt
\* associate the existing tag (same id) with the prompt when a tag of exactly
\* that case-sensitive name exists, and otherwise create one new tag with
\* category "custom" and no color.
C22_TagsReusedByExactName ==
    [][/\ TagNamesUnique /\ TagNamesUnique'
       /\ StoredTagList' =>
            /\ tags \subseteq tags'
            /\ \A t \in tags' \ tags : t.name \in Names(req'.arguments.tags)
            /\ \A n \in Names(req'.arguments.tags) :
                    LET old == {t \in tags : t.name = n}
                        new == {t \in tags' : t.name = n}
                    IN  /\ Cardinality(new) = 1
                        /\ old # {} => new = old
                        /\ old = {} =>
                              \A t \in new : /\ t.category = "custom"
                                             /\ t.color = NoText
                                             /\ \A u \in tags : u.id # t.id
                        /\ \A t \in new :
                              Linked(prompt_tags', StoredPromptId', t.id)
      ]_vars
\* a prompt was stored with the tags "Coding" and "coding" while only
\* "coding" existed: it carries the default tag and one new custom tag
C22_Witness ==
    /\ ToolSucceeded("create_prompt")
    /\ req.arguments.tags = <<"Coding", "coding">>
    /\ \E t \in TagsOf(DB, resp.payload.id) :
            t.name = "coding" /\ t.category = "topic"
    /\ \E t \in TagsOf(DB, resp.payload.id) :
            t.name = "Coding" /\ t.category = "custom"

\* q is p followed by one more segment
IsDirectChild(p, q) ==
    LET base == IF p = Slash THEN Slash ELSE p \o Slash
    IN  /\ Len(q) > Len(base)
        /\ SubSeq(q, 1, Len(base)) = base
        /\ \A i \in (Len(base) + 1)..Len(q) : q[i] # "/"
IsListFolders == req.src = "db" /\ req.name = "list_folders"

\* C23: list_folders(parentPath) with an existing parentPath returns exactly
\* the folders whose path is parentPath and one more segment, each with the
\* number of prompts filed directly in it; with a parentPath that names no
\* folder it returns the empty list.
C23_ListsDirectChildren ==
    IsListFolders =>
        LET p   == req.arguments.parent_path
            ret == resp.payload.ret
        IN  /\ resp.data = NoExc
            /\ IF FolderRows(DB, p) = {} THEN ret = <<>>
               ELSE /\ {ret[i].path : i \in 1..Len(ret)}
                         = {f.path : f \in {g \in folders : IsDirectChild(p, g.path)}}
                    /\ \A i \in 1..Len(ret) : \A j \in 1..Len(ret) :
                          ret[i].path = ret[j].path => i = j
                    /\ \A i \in 1..Len(ret) :
                          ret[i].prompt_count
                            = Cardinality({q \in prompts : \E f \in folders :
                                  f.path = ret[i].path /\ q.folder_id = f.id})

IsDbSearch == req.src = "db" /\ req.name = "search_prompts"
\* the prompts a search is for: the text matches, the folder is the one at
\* the path, and every named tag that exists is carried
Filtered(sp) ==
    {p \in prompts :
        /\ QueryMatches(p, sp.query)
        /\ Truthy(sp.folder_path) =>
              \E f \in folders : f.path = sp.folder_path /\ p.folder_id = f.id
        /\ sp.tags # NoTags =>
              \A t \in KnownTags(sp.tags) : Linked(prompt_tags, p.id, t.id)}

\* C24: a search returns the filtered prompts in ascending id order, without
\* the first offset of them and at most limit of them, and total is the
\* number of filtered prompts before pagination.
C24_PagesInIdOrder ==
    (IsDbSearch /\ resp.data = NoExc) =>
        LET sp == req.arguments
        IN  /\ resp.payload.ret.prompts
                  = Page(ById(Filtered(sp)), sp.offset, sp.limit)
            /\ resp.payload.ret.total = Cardinality(Filtered(sp))

\* what a search with the folder path of sp answered: nothing when no folder
\* has the path, and else only prompts filed in the folder of that path
FolderFilterApplied(sp) ==
    IF FolderRows(DB, sp.folder_path) = {}
    THEN resp.data = NoExc /\ resp.payload.ret = [prompts |-> <<>>, total |-> 0]
    ELSE resp.data = NoExc =>
            \A i \in 1..Len(resp.payload.ret.prompts) :
                resp.payload.ret.prompts[i].folder_id
                    = TheRow(FolderRows(DB, sp.folder_path)).id

\* C25: a search with a folder path that names no folder returns the empty
\* list with total 0 and no error, whatever the query and the tags are; with
\* the path of a folder it returns only prompts filed in it.  (A search
\* whose folder path is empty is a search without folder path.)
C25_MissingFolderIsEmpty ==
    (IsDbSearch /\ Truthy(req.arguments.folder_path)) =>
        FolderFilterApplied(req.arguments)
\* a search by text and tag under the path /B of no folder answered nothing
\* while a prompt matches the text and the tag
C25_Witness ==
    /\ IsDbSearch
    /\ req.arguments.folder_path = <<"/","B">>
    /\ req.arguments.query = <<"t">> /\ req.arguments.tags = <<"coding">>
    /\ resp.payload.ret = [prompts |-> <<>>, total |-> 0]
    /\ Filtered([req.arguments EXCEPT !.folder_path = NoText]) # {}

\* the tool call r names a prompt, a folder or a tag that db does not hold
AbsentReference(db, r) ==
    /\ r.src = "tool"
    /\ CASE r.name \in {"get_prompt", "use_prompt_template", "update_prompt",
                        "delete_prompt"} ->
                /\ r.arguments.prompt_id # NoId
                /\ PromptRows(db, r.arguments.prompt_id) = {}
         [] r.name = "delete_folder" ->
                /\ Truthy(r.arguments.folder_path)
                /\ FolderRows(db, WithLeadingSlash(r.arguments.folder_path)) = {}
         [] r.name = "update_folder" ->
                /\ Truthy(r.arguments.old_path) /\ Truthy(r.arguments.new_path)
                /\ FolderRows(db, WithLeadingSlash(r.arguments.old_path)) = {}
         [] r.name = "update_tag" ->
                /\ r.arguments.current_name # ""
                /\ TagRows(db, r.arguments.current_name) = {}
         [] r.name = "delete_tag" ->
                r.arguments.name # "" /\ TagRows(db, r.arguments.name) = {}
         [] OTHER -> FALSE

\* C26: get_prompt, use_prompt_template, update_prompt, delete_prompt,
\* delete_folder, update_folder, update_tag and delete_tag, called for a prompt
\* id, a folder path or a tag name that is absent, answer with a result whose
\* payload is a "not found" error, not with a JSON-RPC error, and change
\* nothing in the store.
C26_AbsentIsNotFoundPayload ==
    [][AbsentReference(DB, req') =>
          /\ resp'.kind = "result"
          /\ resp'.payload = ErrorPayload("not found")
          /\ DB' = DB
      ]_vars
\* get_prompt was answered "not found" for the id of a deleted prompt
C26_Witness ==
    /\ req.src = "tool" /\ req.name = "get_prompt"
    /\ resp.kind = "result" /\ resp.payload = ErrorPayload("not found")
    /\ prompts = {} /\ req.arguments.prompt_id = 1
    /\ \E f \in folders : f.path = <<"/","A">>

EndsWith(s, suffix) ==
    Len(suffix) <= Len(s)
    /\ SubSeq(s, Len(s) - Len(suffix) + 1, Len(s)) = suffix
IsResourcesList == req.src = "resource" /\ req.name = "resources/list"
IsResourcesRead == req.src = "resource" /\ req.name = "resources/read"

\* C27: resources/list returns one resource per stored prompt, with the uri
\* prompt:///<id> and the title as name; reading a listed uri succeeds with
\* a text that ends with the content of that prompt; resources/read of the
\* uri of an id that no prompt has answers with an error.
C27_ResourcesAreThePrompts ==
    /\ IsResourcesList =>
          /\ resp.kind = "result"
          /\ Len(resp.payload.resources) = Cardinality(prompts)
          /\ \A p \in prompts :
                /\ \E i \in 1..Len(resp.payload.resources) :
                      /\ resp.payload.resources[i].uri = PromptUri(p.id)
                      /\ resp.payload.resources[i].name = p.title
                /\ LET read == handle_resources_read(DB, RequestId, PromptUri(p.id))
                   IN  /\ read.kind = "result"
                       /\ EndsWith(read.payload.text, p.content)
    /\ \A id \in 1..MaxId :
          (IsResourcesRead /\ req.arguments.uri = PromptUri(id)
           /\ PromptRows(DB, id) = {}) => resp.kind = "error"

IsDbDeletePrompt == req.src = "db" /\ req.name = "delete_prompt"
\* searches a deleted prompt could show up in: all prompts, the prompts of a
\* folder, the prompts with a tag, the prompts with a text
SearchProbes ==
    {SearchParams(q, f, t, MaxLimit) :
        q \in {NoText, <<"t">>, <<"k">>},
        f \in {NoText, <<"/","A">>},
        t \in {NoTags, <<"coding">>, <<"new">>}}

\* C28: delete_prompt(id) of a stored prompt returns true, after which
\* get_prompt(id) finds nothing, no search and no resource listing returns
\* the prompt, the prompt has no tag association, and every tag, folder and
\* other prompt is as before; delete_prompt of an absent id returns false
\* and changes nothing.
C28_DeleteIsHard ==
    [][IsDbDeletePrompt' =>
        LET id == req'.arguments.prompt_id
        IN  IF PromptRows(DB, id) # {}
            THEN /\ resp'.data = NoExc /\ resp'.payload.ret = TRUE
                 /\ get_prompt(DB', id) = Result(DB', NoRow, NoExc)
                 /\ \A sp \in SearchProbes :
                       LET found == search_prompts(DB', sp).ret.prompts
                       IN  \A i \in 1..Len(found) : found[i].id # id
                 /\ LET listed == handle_resources_list(DB', RequestId)
                    IN  listed.kind = "result" =>
                          \A i \in 1..Len(listed.payload.resources) :
                              listed.payload.resources[i].uri # PromptUri(id)
                 /\ \A a \in prompt_tags' : a[1] # id
                 /\ tags' = tags /\ folders' = folders
                 /\ prompts' = prompts \ PromptRows(DB, id)
                 /\ \A p \in prompts' :
                       TagPairsOf(prompt_tags', p.id) = TagPairsOf(prompt_tags, p.id)
            ELSE /\ resp'.data = NoExc /\ resp'.payload.ret = FALSE
                 /\ DB' = DB
      ]_vars
\* prompt 1 was deleted while the folder /A and prompt 2 with its two tags
\* are stored: no association but those of prompt 2 is left
C28_Witness ==
    /\ IsDbDeletePrompt /\ req.arguments.prompt_id = 1
    /\ resp.payload.ret = TRUE
    /\ \E f \in folders : f.path = <<"/","A">>
    /\ \E p \in prompts : p.id = 2 /\ TagNamesOf(DB, 2) = {"coding", "new"}
    /\ \A a \in prompt_tags : a[1] = 2

\* C29: delete_folder(p) is not recursive: every folder other than p, the
\* folders below p included, is still there afterwards with its path, and
\* every prompt that was not directly in p keeps its folder.
C29_DeleteFolderNotRecursive ==
    [][(IsDeleteFolder' /\ FolderRows(DB, DeletedPath') # {}) =>
        LET deleted == TheRow(FolderRows(DB, DeletedPath'))
        IN  /\ \A f \in folders : f.path # deleted.path =>
                  \E g \in folders' :
                      g.id = f.id /\ g.path = f.path /\ g.name = f.name
            /\ \A q \in prompts : q.folder_id # deleted.id => q \in prompts'
      ]_vars
\* /A was deleted while the prompt is filed in /A/B: /A/B and the prompt's
\* folder are as before
C29_Witness ==
    /\ IsDeleteFolder /\ DeletedPath = <<"/","A">>
    /\ resp.payload.ret = TRUE
    /\ FolderRows(DB, <<"/","A">>) = {}
    /\ \E q \in prompts :
          FolderRows(DB, <<"/","A","/","B">>) = {f \in folders : f.id = q.folder_id}

\* the deletions of a rename, one after the other from the store db: when a
\* folder is deleted, no folder at or below old_path is below it and no
\* prompt is filed in it
RECURSIVE DeletionsSafe(_, _, _)
DeletionsSafe(db, list, old_path) ==
    IF list = <<>> THEN TRUE
    ELSE LET path == Head(list).path
             rows == FolderRows(db, path)
         IN  /\ rows # {} =>
                   /\ \A g \in db.folders :
                         (g.path = old_path \/ StartsWith(g.path, old_path \o Slash))
                             => ~StartsWith(g.path, path \o Slash)
                   /\ \A q \in db.prompts : q.folder_id # TheRow(rows).id
             /\ DeletionsSafe(delete_folder(db, path).db, Tail(list), old_path)
\* the store when the deletions of update_folder(arguments) begin
BeforeDeletions(db, arguments) ==
    LET old_path == WithLeadingSlash(arguments.old_path)
        new_path == WithLeadingSlash(arguments.new_path)
        all      == list_folders(db, NoText).ret
        InSubtree(f) == f.path = old_path \/ StartsWith(f.path, old_path \o Slash)
        IsChild(f)   == InSubtree(f) /\ f.path # old_path
        collected == CollectPrompts(db,
                         <<old_path>> \o SelectPaths(all, IsChild), <<>>)
        made     == CreateNewFolders(db, SelectSeq(all, InSubtree),
                                     old_path, new_path)
    IN  [db |-> MovePrompts(made.db, collected.ret, old_path, new_path).db,
         folders_to_update |-> SelectSeq(all, InSubtree)]

\* C30: a rename deletes the original folders deepest first: when a folder
\* is deleted, no folder that is left under the old path is below it, and no
\* prompt is filed in it, every prompt of the subtree having been moved to
\* its new folder before.
C30_DeletedDeepestFirstAndEmpty ==
    [][ToolSucceeded("update_folder")' =>
        LET stage == BeforeDeletions(DB, req'.arguments)
        IN  DeletionsSafe(stage.db, DeepestFirst(stage.folders_to_update),
                          WithLeadingSlash(req'.arguments.old_path))
      ]_vars

\* C31: in every reachable state folder paths are unique and normalized:
\* no two folders share a path, and each stored path is "/" or starts with
\* "/", has no empty segment and no trailing "/", however the creating
\* request spelled it.
C31_PathsUniqueAndNormalized ==
    /\ \A f, g \in folders : f.path = g.path => f = g
    /\ \A f \in folders : f.path = Normalized(f.path)

\* the folder reached from f by following parent_id n times (f itself when a
\* folder on the way has no parent or a parent that is no folder)
RECURSIVE Above(_, _)
Above(f, n) ==
    LET up == {g \in folders : g.id = f.parent_id}
    IN  IF n = 0 \/ up = {} THEN f ELSE Above(TheRow(up), n - 1)
\* C32: the parent relation has no cycle: following parent_id from any folder
\* reaches a folder with no parent in finitely many steps, and each step goes
\* to a folder whose path has one segment less.
C32_ParentsAreShorter ==
    \A f \in folders :
        /\ Above(f, Cardinality(folders)).parent_id = NoId
        /\ \A g \in folders :
              g.id = f.parent_id => Len(Parts(g.path)) = Len(Parts(f.path)) - 1

\* the folder a path denotes and every ancestor of it are folders of db
PathExists(db, path) ==
    /\ FolderRows(db, Normalized(path)) # {}
    /\ \A a \in AncestorPaths(path) : FolderRows(db, a) # {}
\* the calls of _create_folder_if_not_exists of a rename, one after the other
\* from the store db: a call that returns leaves prompts and their tags as
\* they were and the folder of its path, with its ancestors, in the store
RECURSIVE EachMaterialized(_, _, _, _)
EachMaterialized(db, list, old_path, new_path) ==
    IF list = <<>> THEN TRUE
    ELSE LET path == RenamedPath(Head(list).path, old_path, new_path)
             r    == create_folder_if_not_exists(db, path)
         IN  /\ r.db.prompts = db.prompts
             /\ r.db.prompt_tags = db.prompt_tags
             /\ r.raised = NoExc =>
                   /\ PathExists(r.db, path)
                   /\ EachMaterialized(r.db, Tail(list), old_path, new_path)
\* the rename got as far as creating the new folders
RenameStarted ==
    /\ req.src = "tool" /\ req.name = "update_folder" /\ resp.kind = "result"
    /\ resp.payload.message \in {"Renamed folder", "Failed to rename folder"}

\* C33: materializing a folder through a placeholder prompt (the create_folder
\* tool, and each folder creation inside a folder rename) leaves the prompts
\* as they were: afterwards no placeholder prompt exists, no prompt has
\* changed, and the requested folder and all its ancestors exist.
C33_PlaceholderLeavesPrompts ==
    [][/\ (req'.src = "tool" /\ req'.name = "create_folder") =>
            /\ prompts' = prompts /\ prompt_tags' = prompt_tags
            /\ ToolSucceeded("create_folder")' =>
                   PathExists(DB', req'.arguments.folder_path)
       /\ RenameStarted' =>
            LET old == WithLeadingSlash(req'.arguments.old_path)
                new == WithLeadingSlash(req'.arguments.new_path)
                InSubtree(f) == InSubtreeOf(f.path, old)
            IN  EachMaterialized(DB, SelectSeq(list_folders(DB, NoText).ret,
                                               InSubtree), old, new)
      ]_vars

\* the prompt is filed in a folder at or below the path top
FiledUnder(db, q, top) ==
    \E f \in db.folders : f.id = q.folder_id /\ InSubtreeOf(f.path, top)
\* C34: a folder rename touches only the renamed subtree: a folder whose path
\* is neither oldPath nor starts with oldPath + "/" (a sibling oldPath + "X"
\* included) keeps its path and its prompts, every prompt outside the subtree
\* keeps its folder, the number of prompts is unchanged, and every prompt
\* keeps its title, content, description and tags.
C34_RenameTouchesOnlySubtree ==
    [][(req'.src = "tool" /\ req'.name = "update_folder"
            /\ Truthy(req'.arguments.old_path)) =>
        LET old == WithLeadingSlash(req'.arguments.old_path)
        IN  /\ \A f \in folders : ~InSubtreeOf(f.path, old) =>
                  /\ \E g \in folders' : g.id = f.id /\ g.path = f.path
                  /\ \A q \in prompts : q.folder_id = f.id =>
                        \E q2 \in prompts' : q2.id = q.id /\ q2.folder_id = f.id
            /\ \A q \in prompts : ~FiledUnder(DB, q, old) => q \in prompts'
            /\ Cardinality(prompts') = Cardinality(prompts)
            /\ \A q \in prompts : \E q2 \in prompts' :
                  /\ q2.id = q.id /\ q2.title = q.title
                  /\ q2.content = q.content /\ q2.description = q.description
                  /\ TagsOf(DB', q.id) = TagsOf(DB, q.id)
      ]_vars
\* /A was renamed to /C: its tagged prompt is in /C, the prompt of the
\* sibling /AX is where it was
C34_Witness ==
    /\ ToolSucceeded("update_folder")
    /\ req.arguments.old_path = <<"/","A">>
    /\ req.arguments.new_path = <<"/","C">>
    /\ \E q \in prompts :
          /\ FiledUnder(DB, q, <<"/","C">>)
          /\ TagNamesOfPrompt(DB, q.id) = {"coding"}
    /\ \E q \in prompts : FiledUnder(DB, q, <<"/","A","X">>)

\* a tools/call request was answered with an error: a JSON-RPC error
\* response, or a result whose payload has the key "error"
AnsweredWithError ==
    /\ req.src = "tool"
    /\ resp.kind = "error" \/ (resp.kind = "result" /\ resp.payload.error)
\* C35: a tools/call request that is answered with an error leaves folders,
\* tags, prompts and prompt-tag associations exactly as they were.
C35_ErrorLeavesCatalogue ==
    [][AnsweredWithError' => UNCHANGED <<folders, prompts, tags, prompt_tags>>]_vars

\* C36: update_tag changes only the tag's name, category or color: every
\* prompt that carried the tag before the update carries the updated tag
\* afterwards, and no prompt's tag set shrinks.
C36_UpdateTagKeepsPrompts ==
    [][ToolSucceeded("update_tag")' =>
        LET old == req'.arguments.current_name
            new == resp'.payload.tag.name
        IN  /\ prompts' = prompts
            /\ \A q \in prompts :
                  /\ old \in TagNamesOfPrompt(DB, q.id)
                        => new \in TagNamesOfPrompt(DB', q.id)
                  /\ Cardinality(TagsOf(DB', q.id)) >= Cardinality(TagsOf(DB, q.id))
      ]_vars

\* the prompts at the root: filed in no folder (created without a folder
\* path) or filed in the folder "/"
AtRoot ==
    {p \in prompts :
        \/ p.folder_id = NoId
        \/ \E f \in folders : f.path = Slash /\ p.folder_id = f.id}
\* C37: the root is one place: a prompt created with no folder path and a
\* prompt created with folder path "/" are filed in the same folder, so a
\* search with folder path "/" returns both, and the prompt_count of the
\* root in list_folders counts both.
C37_RootIsOnePlace ==
    /\ (IsDbSearch /\ req.arguments.folder_path = Slash /\ resp.data = NoExc) =>
          /\ resp.payload.ret.total = Cardinality(AtRoot)
          /\ {resp.payload.ret.prompts[i].id :
                  i \in 1..Len(resp.payload.ret.prompts)} = {p.id : p \in AtRoot}
    /\ (IsListFolders /\ req.arguments.parent_path = NoText) =>
          \A i \in 1..Len(resp.payload.ret) :
              resp.payload.ret[i].path = Slash =>
                  resp.payload.ret[i].prompt_count = Cardinality(AtRoot)

\* C38: referential integrity holds in every reachable state: every prompt's
\* folder_id is null or the id of a folder, every folder's parent_id is null
\* or the id of a folder, and every prompt-tag association refers to a prompt
\* and a tag that exist, also after a parent folder, a folder holding prompts
\* or a tag in use is deleted.
C38_ReferencesResolve ==
    /\ \A p \in prompts :
          p.folder_id = NoId \/ \E f \in folders : f.id = p.folder_id
    /\ \A f \in folders :
          f.parent_id = NoId \/ \E g \in folders : g.id = f.parent_id
    /\ \A a \in prompt_tags :
          /\ \E p \in prompts : p.id = a[1]
          /\ \E t \in tags : t.id = a[2]
\* the parent /A of /A/B was deleted while a tagged prompt is filed in /A/B
C38_Witness ==
    /\ IsDeleteFolder /\ DeletedPath = <<"/","A">>
    /\ FolderRows(DB, <<"/","A">>) = {}
    /\ \E f \in FolderRows(DB, <<"/","A","/","B">>) :
          /\ f.parent_id = NoId
          /\ \E p \in prompts : p.folder_id = f.id /\ TagsOf(DB, p.id) # {}

\* C39: delete_tag(name) on an existing tag removes that tag from the tag set
\* of every prompt that carried it and deletes no prompt and no other tag;
\* every prompt's other tags, folder and text are unchanged, and a later
\* get_prompt of a prompt that carried the tag succeeds.
C39_DeleteTagLeavesPrompts ==
    [][(/\ req'.src = "tool" /\ req'.name = "delete_tag"
        /\ TagRows(DB, req'.arguments.name) # {}) =>
        LET gone == TagRows(DB, req'.arguments.name)
        IN  /\ tags' = tags \ gone
            /\ prompts' = prompts
            /\ \A q \in prompts :
                  /\ TagsOf(DB', q.id) = TagsOf(DB, q.id) \ gone
                  /\ TagsOf(DB, q.id) \cap gone # {} =>
                        LET got == get_prompt(DB', q.id)
                        IN  got.raised = NoExc /\ got.ret = q
      ]_vars

====
